---- MODULE Spec2Model ----
(***************************************************************************)
(* Cross-border payment orchestrator: the HTTP handlers initiate and       *)
(* confirm behind the idempotency layer, the payment store, the event log, *)
(* the payment-processing queue and the orchestrator worker.               *)
(*                                                                         *)
(* Every await of a handler that touches the store, the cache, the queue   *)
(* or a provider is one atomic step; requests and job attempts interleave  *)
(* at these steps.  Money is in cents, fee intermediates in 1/1000 cent,   *)
(* time in minutes.                                                        *)
(***************************************************************************)
EXTENDS Integers, Sequences, FiniteSets, TLC

VARIABLES
    payments,      \* Payment table: sequence of rows, row i has id i
    events,        \* Event table, in insertion order
    idem,          \* redis idempotency records: set of [rkey, data, expiresAt]
    paymentQueue,  \* payment-processing queue: sequence of jobs with the attempt's position
    webhookQueue,  \* webhook-delivery queue: sequence of jobs {paymentId, eventType}
    reqs,          \* HTTP requests: position in the handler, locals, response
    statusWrites,  \* per payment: the statuses written to Payment.status, in order
    providerCalls, \* per payment: provider invocations and successful charges
    faults,        \* number of store/cache/queue writes that have thrown
    now,           \* wall clock, minutes
    quote,         \* the latest quote request: its body, the fees computed, its response
    deliveries,    \* WebhookDelivery table, in insertion order
    stream,        \* the event stream of one payment: position, high-water mark, frames sent
    userStream,    \* the event stream of the user: position, high-water mark, frames sent
    rateCache,     \* redis keys rate:USD:<to>: per currency the cached string and its TTL
    rateCall       \* the call of getExchangeRate in progress: position, locals, result

vars == <<payments, events, idem, paymentQueue, webhookQueue, reqs,
          statusWrites, providerCalls, faults, now, quote,
          deliveries, stream, userStream, rateCache, rateCall>>

\* the rate cache and the rate lookup in progress
fx == <<rateCache, rateCall>>

\* the WebhookDelivery table, the two event streams and the rate lookup
feeds == <<deliveries, stream, userStream, fx>>

----------------------------------------------------------------------------
(* Bounds of the model *)

MaxRequests == 3
MaxPayments == 1
MaxJobs == 2
MaxFaults == 1
MaxTime == 2
MaxClientRequests == 2
MaxCents == 250
MaxHooks == 1
MaxOverlap == 2
MaxRateCalls == 2

(* Program constants *)

QuoteLifetime == 1
TTL == 1440
Attempts == 3
Concurrency == 5
UserBalance == 10000 * 100

DEMO_USER_ID == "user_001"
NULL == -1

\* Idempotency-Key values (UUID v4), in the order clients first use them
Keys == <<"k1", "k2">>

PaymentStatus ==
    {"QUOTED", "INITIATED", "CONFIRMED", "ONRAMP_PENDING", "ONRAMP_COMPLETED",
     "ONRAMP_FAILED", "OFFRAMP_PENDING", "OFFRAMP_COMPLETED", "OFFRAMP_FAILED",
     "COMPLETED", "FAILED"}

----------------------------------------------------------------------------
(* Fee engine *)

FEE_CONFIG ==
    [onramp   |-> [ach |-> 0, card |-> 29],
     corridor |-> [MXN |-> 10, NGN |-> 20, PHP |-> 15, INR |-> 12, BRL |-> 18],
     platform |-> [fixed |-> 299000, percent |-> 5, min |-> 99000, max |-> 5000000],
     networkGas |-> 5000,
     limits   |-> [min |-> 1000, max |-> 1000000]]

\* Math.min that ignores the cap
Min_NoCap(a, b) == a

Min(a, b) == IF a < b THEN a ELSE b
Max(a, b) == IF a > b THEN a ELSE b

\* Math.round(value * 100) / 100 on a value given in 1/1000 cent; result in cents
round(m) == (m + 500) \div 1000

\* the fee components before rounding, in 1/1000 cent
feeAmounts(params) ==
    LET amount      == params.amount
        onrampFee   == amount * FEE_CONFIG.onramp[params.payment_method]
        corridorFee == amount * FEE_CONFIG.corridor[params.destination_currency]
        platformFee == Max(FEE_CONFIG.platform.min,
                           Min(FEE_CONFIG.platform.fixed + amount * FEE_CONFIG.platform.percent,
                               FEE_CONFIG.platform.max))
        networkGas  == FEE_CONFIG.networkGas
        totalFees   == onrampFee + corridorFee + platformFee + networkGas
    IN  [amount       |-> amount * 1000,
         onrampFee    |-> onrampFee,
         corridorFee  |-> corridorFee,
         platformFee  |-> platformFee,
         networkGas   |-> networkGas,
         totalFees    |-> totalFees,
         usdcSent     |-> IF params.fee_handling = "inclusive"
                          THEN amount * 1000 - totalFees ELSE amount * 1000,
         totalCharged |-> IF params.fee_handling = "inclusive"
                          THEN amount * 1000 ELSE amount * 1000 + totalFees]

\* the amount check at the head of calculateFees
OutOfRange(amount) == amount < FEE_CONFIG.limits.min \/ amount > FEE_CONFIG.limits.max

AmountError == [error |-> "Amount must be between $10 and $10000"]

\* calculateFees in exact arithmetic, every field rounded half-up
calculateFees(params) ==
    IF OutOfRange(params.amount) THEN AmountError
    ELSE LET f == feeAmounts(params)
         IN  [input_amount  |-> round(f.amount),
              total_charged |-> round(f.totalCharged),
              fees |-> [onramp      |-> round(f.onrampFee),
                        corridor    |-> round(f.corridorFee),
                        platform    |-> round(f.platformFee),
                        network_gas |-> round(f.networkGas),
                        total       |-> round(f.totalFees)],
              usdc_sent |-> round(f.usdcSent)]

\* round on binary doubles: a value on a half-cent tie is held just below or
\* just above the tie, so value * 100 rounds to either neighbour; every other
\* two- or five-decimal value rounds as in exact arithmetic
roundDouble(m) == IF m % 1000 = 500 THEN {m \div 1000, m \div 1000 + 1} ELSE {round(m)}

\* the results calculateFees can return in double arithmetic
calculateFeesDouble(params) ==
    IF OutOfRange(params.amount) THEN {AmountError}
    ELSE LET f == feeAmounts(params)
         IN  {[input_amount  |-> round(f.amount),
               total_charged |-> tc,
               fees |-> [onramp      |-> o,
                         corridor    |-> c,
                         platform    |-> p,
                         network_gas |-> round(f.networkGas),
                         total       |-> t],
               usdc_sent |-> u] :
                 tc \in roundDouble(f.totalCharged), o \in roundDouble(f.onrampFee),
                 c \in roundDouble(f.corridorFee), p \in roundDouble(f.platformFee),
                 t \in roundDouble(f.totalFees), u \in roundDouble(f.usdcSent)}

\* exchange rates per USD in 1/1000: the fallback table of the rate provider
FALLBACK_RATES == [MXN |-> 17234, NGN |-> 745500, PHP |-> 56750, INR |-> 83250, BRL |-> 4950]

getExchangeRate(from, to) == FALLBACK_RATES[to]

\* the destination amount cut to the cent instead of rounded
calculateDestinationAmount_Floor(usdcSent, exchangeRate) ==
    {usdcSent * (exchangeRate \div 1000) + (usdcSent * (exchangeRate % 1000)) \div 1000}

\* round(usdcSent * exchangeRate): cents times a rate in 1/1000, the whole
\* units of the rate multiplied apart to stay within 32 bits
calculateDestinationAmount(usdcSent, exchangeRate) ==
    {usdcSent * (exchangeRate \div 1000) + frac :
        frac \in roundDouble(usdcSent * (exchangeRate % 1000))}

\* round(destinationAmount / inputAmount, 6) in 1/1000000, by long division
calculateEffectiveRate(inputAmount, destinationAmount) ==
    LET q0 == destinationAmount \div inputAmount
        r0 == destinationAmount % inputAmount
        q1 == (r0 * 1000) \div inputAmount
        r1 == (r0 * 1000) % inputAmount
    IN  q0 * 1000000 + q1 * 1000 + (2 * r1 * 1000 + inputAmount) \div (2 * inputAmount)

----------------------------------------------------------------------------
(* Requests *)

InitiateBodies ==
    {[amount |-> 10000, destination_currency |-> "MXN",
      payment_method |-> "ach", fee_handling |-> "inclusive"],
     [amount |-> 50000, destination_currency |-> "NGN",
      payment_method |-> "card", fee_handling |-> "additive"]}

\* a UUID that names no payment
UnknownId == 0

\* the schema without its lower bound on the amount
initiateSchema_NoMin(body) ==
    /\ body.amount <= FEE_CONFIG.limits.max
    /\ body.destination_currency \in DOMAIN FEE_CONFIG.corridor
    /\ body.payment_method \in DOMAIN FEE_CONFIG.onramp
    /\ body.fee_handling \in {"inclusive", "additive"}

initiateSchema(body) ==
    /\ body.amount >= FEE_CONFIG.limits.min
    /\ body.amount <= FEE_CONFIG.limits.max
    /\ body.destination_currency \in DOMAIN FEE_CONFIG.corridor
    /\ body.payment_method \in DOMAIN FEE_CONFIG.onramp
    /\ body.fee_handling \in {"inclusive", "additive"}

getUserBalance(userId) == UserBalance

IdleReq ==
    [pc |-> "idle", endpoint |-> "none", key |-> "none", body |-> [none |-> TRUE],
     pid |-> 0,
     resp |-> [status |-> 0, headers |-> {}, body |-> [none |-> TRUE]]]

\* no quote request has been received
NoQuote == [body |-> IdleReq.body, fees |-> [none |-> TRUE], resp |-> IdleReq.resp]

\* new Date(0), before every timestamp
Epoch == -1

\* no client is connected to the stream of a payment; closeCalls counts the
\* calls of controller.close(), lateEnqueues the calls of controller.enqueue()
\* made after the controller was closed, signal is the state of req.signal
NoStream ==
    [pc |-> "none", paymentId |-> 0, lastTimestamp |-> Epoch,
     frames |-> <<>>, polls |-> <<>>,
     closeCalls |-> 0, lateEnqueues |-> 0, signal |-> "live"]

\* no client is connected to the stream of the user
NoUserStream ==
    [pc |-> "none", userPayments |-> {}, since |-> 0, lastTimestamp |-> Epoch,
     frames |-> <<>>, polls |-> <<>>]

\* the currencies a rate is asked for: the corridors and one without a
\* fallback rate
Currencies == DOMAIN FALLBACK_RATES \cup {"EUR"}

\* a cache key that is not set
NoEntry == [value |-> <<>>, ttl |-> 0]

\* a call that has not returned
NoResult == [kind |-> "none", value |-> 0]

\* no call of getExchangeRate in progress
NoRateCall ==
    [pc |-> "idle", from |-> "", to |-> "", rate |-> NULL, result |-> NoResult,
     fetches |-> 0, calls |-> 0]

\* empty tables, cache and queues; no request received, no stream open
InitStore ==
    /\ payments = <<>>
    /\ events = <<>>
    /\ idem = {}
    /\ paymentQueue = <<>>
    /\ webhookQueue = <<>>
    /\ reqs = [r \in 1..MaxRequests |-> IdleReq]
    /\ statusWrites = <<>>
    /\ providerCalls = <<>>
    /\ faults = 0
    /\ now = 0
    /\ deliveries = <<>>
    /\ stream = NoStream
    /\ userStream = NoUserStream
    /\ rateCache = [c \in Currencies |-> NoEntry]
    /\ rateCall = NoRateCall

Init == InitStore /\ quote = NoQuote

----------------------------------------------------------------------------
(* Idempotency layer *)

JsonHeaders == {<<"content-type", "application/json">>}

\* NextResponse.json(body, { status })
Json(status, body) == [status |-> status, headers |-> JsonHeaders, body |-> body]

\* createHash('sha256').update(body).digest('hex'): one digest per body
hashRequest(body) == <<"sha256", body>>

\* the key without the endpoint
redisKey_NoEndpoint(endpoint, userId, key) == "idempotency:" \o userId \o ":" \o key

\* `idempotency:${endpoint}:${userId}:${key}`
redisKey(endpoint, userId, key) ==
    "idempotency:" \o endpoint \o ":" \o userId \o ":" \o key

\* redis.get: the live record under the key, as a set with at most one element
redisGet(rkey) == {e \in idem : e.rkey = rkey /\ now < e.expiresAt}

\* redis.setex: replaces the record under the key
redisSetex(rkey, ttl, data) ==
    {e \in idem : e.rkey # rkey} \cup {[rkey |-> rkey, data |-> data, expiresAt |-> now + ttl]}

ConflictResponse ==
    Json(409, [error |-> "Idempotency key conflict",
               message |-> "The same idempotency key was used with a different request body"])

NoCachedResponse == [kind |-> "null", resp |-> Json(0, [none |-> TRUE])]

\* replays the stored response: data.status, data.body, data.headers and the replay header
Replay(data) ==
    [kind |-> "replay",
     resp |-> [status  |-> data.status,
               headers |-> data.headers \cup JsonHeaders
                           \cup {<<"idempotent-replayed", "true">>},
               body    |-> data.body]]

\* checkIdempotency without the replay branch: a matching record is ignored
checkIdempotency_NoReplay(endpoint, userId, key, body) ==
    LET cached == redisGet(redisKey(endpoint, userId, key))
    IN  IF cached = {} THEN NoCachedResponse
        ELSE LET data == (CHOOSE e \in cached : TRUE).data
             IN  IF data.requestHash # hashRequest(body)
                 THEN [kind |-> "conflict", resp |-> ConflictResponse]
                 ELSE NoCachedResponse

\* checkIdempotency without the fingerprint comparison: every record is replayed
checkIdempotency_NoConflict(endpoint, userId, key, body) ==
    LET cached == redisGet(redisKey(endpoint, userId, key))
    IN  IF cached = {} THEN NoCachedResponse
        ELSE Replay((CHOOSE e \in cached : TRUE).data)

\* the cached response, the 409, or "null" for a new request
checkIdempotency(endpoint, userId, key, body) ==
    LET cached == redisGet(redisKey(endpoint, userId, key))
    IN  IF cached = {} THEN NoCachedResponse
        ELSE LET data == (CHOOSE e \in cached : TRUE).data
             IN  IF data.requestHash # hashRequest(body)
                 THEN [kind |-> "conflict", resp |-> ConflictResponse]
                 ELSE Replay(data)

\* a store that keeps the status and body of the handler's error response
storeIdempotency_Error(endpoint, userId, key, body, response) ==
    redisSetex(redisKey(endpoint, userId, key), TTL,
               [requestHash |-> hashRequest(body),
                status      |-> 500,
                headers     |-> response.headers,
                body        |-> [error |-> "Internal server error"]])

storeIdempotency(endpoint, userId, key, body, response) ==
    redisSetex(redisKey(endpoint, userId, key), TTL,
               [requestHash |-> hashRequest(body),
                status      |-> response.status,
                headers     |-> response.headers,
                body        |-> response.body])

----------------------------------------------------------------------------
(* Steps shared by the handlers *)

\* a write may throw; the model bounds how many do
MayFault(ok) == ok \/ faults < MaxFaults
CountFault(ok) == faults' = IF ok THEN faults ELSE faults + 1

\* requests arrive in slot order
Arrives(r) ==
    /\ reqs[r].pc = "idle"
    /\ IF r = 1 THEN TRUE ELSE reqs[r - 1].pc # "idle"

\* the handler returns: its locals are gone
Respond(r, resp) == reqs' = [reqs EXCEPT ![r].pc = "done", ![r].pid = 0, ![r].resp = resp]

InternalError == Json(500, [error |-> "Internal server error", message |-> "write failed"])

\* the 500 of the catch block when calculateFees throws
FeeError == Json(500, [error |-> "Internal server error", message |-> AmountError.error])

InvalidRequest == Json(400, [error |-> "Invalid request", message |-> "Validation failed"])

\* header values that are no UUID v4: no header (headers.get gives null), text
\* that is no UUID, and a UUID of version 1
BadHeaders == {"", "not-a-uuid", "6ba7b810-9dad-11d1-80b4-00c04fd430c8"}

\* a check that lets every header value pass
isUUIDv4_Any(str) == TRUE

\* uuidv4Regex.test(str): the values of Keys stand for the strings that match
isUUIDv4(str) == \E i \in DOMAIN Keys : Keys[i] = str

InvalidIdempotencyKey ==
    Json(400, [error |-> "Invalid idempotency key",
               message |-> "Valid Idempotency-Key header (UUID v4) is required"])

InsufficientBalance(required) ==
    Json(400, [error |-> "Insufficient balance", required |-> required])

eventType(status) ==
    CASE status = "ONRAMP_PENDING"    -> "onramp.pending"
      [] status = "ONRAMP_COMPLETED"  -> "onramp.completed"
      [] status = "ONRAMP_FAILED"     -> "onramp.failed"
      [] status = "OFFRAMP_PENDING"   -> "offramp.pending"
      [] status = "OFFRAMP_COMPLETED" -> "offramp.completed"
      [] status = "OFFRAMP_FAILED"    -> "offramp.failed"
      [] status = "COMPLETED"         -> "completed"
      [] status = "FAILED"            -> "failed"
      [] status = "CONFIRMED"         -> "confirmed"
      [] status = "INITIATED"         -> "initiated"
      [] status = "QUOTED"            -> "quoted"

\* prisma.event.create
EventCreate(paymentId, type, status) ==
    events' = Append(events, [paymentId |-> paymentId, eventType |-> type,
                              status |-> status, timestamp |-> now])

\* prisma.payment.update({ data: { status } })
StatusUpdate(paymentId, status) ==
    /\ payments' = [payments EXCEPT ![paymentId].status = status]
    /\ statusWrites' = [statusWrites EXCEPT ![paymentId] = Append(@, status)]

----------------------------------------------------------------------------
(* POST /api/v1/initiate *)

NewPayment(id, body, destAmount) ==
    LET fees == calculateFees(body)
    IN  [id             |-> id,
         userId         |-> DEMO_USER_ID,
         status         |-> "INITIATED",
         amount         |-> body.amount,
         destCurrency   |-> body.destination_currency,
         exchangeRate   |-> getExchangeRate("USD", body.destination_currency),
         quoteExpiresAt |-> now + QuoteLifetime,
         onrampFee      |-> fees.fees.onramp,
         corridorFee    |-> fees.fees.corridor,
         platformFee    |-> fees.fees.platform,
         networkGas     |-> fees.fees.network_gas,
         totalFees      |-> fees.fees.total,
         usdcSent       |-> fees.usdc_sent,
         destAmount     |-> destAmount,
         feeHandling    |-> IF body.fee_handling = "inclusive" THEN "INCLUSIVE" ELSE "ADDITIVE",
         onrampTxId     |-> NULL,
         offrampTxId    |-> NULL,
         completedAt    |-> NULL]

\* steps 1-7: key check, idempotency lookup, validation, balance, fees
InitiateCheck(r, key, body) ==
    /\ Arrives(r)
    /\ LET c == checkIdempotency("initiate", DEMO_USER_ID, key, body)
           q == [reqs[r] EXCEPT !.endpoint = "initiate", !.key = key, !.body = body]
           required == IF body.fee_handling = "inclusive" THEN body.amount
                       ELSE body.amount + calculateFees(body).fees.total
       IN  reqs' = [reqs EXCEPT ![r] =
                IF key = "" \/ ~isUUIDv4(key)
                THEN [q EXCEPT !.pc = "done", !.resp = InvalidIdempotencyKey]
                ELSE IF c.kind # "null" THEN [q EXCEPT !.pc = "done", !.resp = c.resp]
                ELSE IF ~initiateSchema(body) THEN [q EXCEPT !.pc = "done", !.resp = InvalidRequest]
                ELSE IF getUserBalance(DEMO_USER_ID) < required
                     THEN [q EXCEPT !.pc = "done", !.resp = InsufficientBalance(required)]
                ELSE IF calculateFees(body) = AmountError
                     THEN [q EXCEPT !.pc = "done", !.resp = FeeError]
                ELSE [q EXCEPT !.pc = "create"]]
    /\ UNCHANGED <<payments, events, idem, paymentQueue, webhookQueue,
                   statusWrites, providerCalls, faults, now, quote, feeds>>

\* step 8: prisma.payment.create
InitiateCreate(r, ok) ==
    /\ reqs[r].endpoint = "initiate" /\ reqs[r].pc = "create"
    /\ Len(payments) < MaxPayments
    /\ MayFault(ok) /\ CountFault(ok)
    /\ IF ok
       THEN LET id == Len(payments) + 1
                rate == getExchangeRate("USD", reqs[r].body.destination_currency)
            IN  /\ \E destAmount \in calculateDestinationAmount(
                                        calculateFees(reqs[r].body).usdc_sent, rate) :
                       payments' = Append(payments, NewPayment(id, reqs[r].body, destAmount))
                /\ statusWrites' = Append(statusWrites, <<"INITIATED">>)
                /\ providerCalls' = Append(providerCalls,
                                           [onramp |-> 0, charged |-> 0, offramp |-> 0,
                                            method |-> "none"])
                /\ reqs' = [reqs EXCEPT ![r].pc = "event", ![r].pid = id]
       ELSE /\ Respond(r, InternalError)
            /\ UNCHANGED <<payments, statusWrites, providerCalls>>
    /\ UNCHANGED <<events, idem, paymentQueue, webhookQueue, now, quote, feeds>>

\* step 9: prisma.event.create
InitiateEvent(r, ok) ==
    /\ reqs[r].endpoint = "initiate" /\ reqs[r].pc = "event"
    /\ MayFault(ok) /\ CountFault(ok)
    /\ IF ok
       THEN /\ EventCreate(reqs[r].pid, "payment.initiated", "INITIATED")
            /\ reqs' = [reqs EXCEPT ![r].pc = "store"]
       ELSE /\ Respond(r, InternalError)
            /\ UNCHANGED events
    /\ UNCHANGED <<payments, idem, paymentQueue, webhookQueue, statusWrites,
                   providerCalls, now, quote, feeds>>

\* steps 10-11: response, storeIdempotency, return
InitiateStore(r, ok) ==
    /\ reqs[r].endpoint = "initiate" /\ reqs[r].pc = "store"
    /\ MayFault(ok) /\ CountFault(ok)
    /\ LET response == Json(200, [payment_id |-> reqs[r].pid,
                                  status |-> "INITIATED",
                                  quote_expires_at |-> payments[reqs[r].pid].quoteExpiresAt])
       IN  IF ok
           THEN /\ idem' = storeIdempotency("initiate", DEMO_USER_ID, reqs[r].key,
                                            reqs[r].body, response)
                /\ Respond(r, response)
           ELSE /\ Respond(r, InternalError)
                /\ UNCHANGED idem
    /\ UNCHANGED <<payments, events, paymentQueue, webhookQueue, statusWrites,
                   providerCalls, now, quote, feeds>>

----------------------------------------------------------------------------
(* POST /api/v1/confirm *)

NewJob(paymentId) ==
    [paymentId |-> paymentId, attemptsMade |-> 0, state |-> "waiting",
     pc |-> "idle", sub |-> "none", txId |-> NULL]

InvalidStatus(status) ==
    Json(400, [error |-> "Invalid payment status", current |-> status])

\* steps 1-4: key check, idempotency lookup, body validation
ConfirmCheck(r, key, body) ==
    /\ Arrives(r)
    /\ LET c == checkIdempotency("confirm", DEMO_USER_ID, key, body)
           q == [reqs[r] EXCEPT !.endpoint = "confirm", !.key = key, !.body = body]
       IN  reqs' = [reqs EXCEPT ![r] =
                IF key = "" \/ ~isUUIDv4(key)
                THEN [q EXCEPT !.pc = "done", !.resp = InvalidIdempotencyKey]
                ELSE IF c.kind # "null" THEN [q EXCEPT !.pc = "done", !.resp = c.resp]
                ELSE [q EXCEPT !.pc = "fetch"]]
    /\ UNCHANGED <<payments, events, idem, paymentQueue, webhookQueue,
                   statusWrites, providerCalls, faults, now, quote, feeds>>

QuoteExpired == Json(400, [error |-> "Quote expired"])

\* confirm without step 6: the quote expiration is not checked
ConfirmFetch_NoExpiry(r) ==
    /\ reqs[r].endpoint = "confirm" /\ reqs[r].pc = "fetch"
    /\ LET id == reqs[r].body.payment_id
       IN  IF id \notin DOMAIN payments
           THEN Respond(r, Json(404, [error |-> "Payment not found", payment_id |-> id]))
           ELSE LET payment == payments[id]
                    required == IF payment.feeHandling = "INCLUSIVE" THEN payment.amount
                                ELSE payment.amount + payment.totalFees
                IN  IF payment.status # "INITIATED"
                    THEN Respond(r, InvalidStatus(payment.status))
                    ELSE IF getUserBalance(DEMO_USER_ID) < required
                    THEN Respond(r, InsufficientBalance(required))
                    ELSE reqs' = [reqs EXCEPT ![r].pc = "update", ![r].pid = id]
    /\ UNCHANGED <<payments, events, idem, paymentQueue, webhookQueue,
                   statusWrites, providerCalls, faults, now, quote, feeds>>

\* steps 4-7: prisma.payment.findUnique, status, quote expiration, balance
ConfirmFetch(r) ==
    /\ reqs[r].endpoint = "confirm" /\ reqs[r].pc = "fetch"
    /\ LET id == reqs[r].body.payment_id
       IN  IF id \notin DOMAIN payments
           THEN Respond(r, Json(404, [error |-> "Payment not found", payment_id |-> id]))
           ELSE LET payment == payments[id]
                    required == IF payment.feeHandling = "INCLUSIVE" THEN payment.amount
                                ELSE payment.amount + payment.totalFees
                IN  IF payment.status # "INITIATED"
                    THEN Respond(r, InvalidStatus(payment.status))
                    ELSE IF payment.quoteExpiresAt < now
                    THEN Respond(r, QuoteExpired)
                    ELSE IF getUserBalance(DEMO_USER_ID) < required
                    THEN Respond(r, InsufficientBalance(required))
                    ELSE reqs' = [reqs EXCEPT ![r].pc = "update", ![r].pid = id]
    /\ UNCHANGED <<payments, events, idem, paymentQueue, webhookQueue,
                   statusWrites, providerCalls, faults, now, quote, feeds>>

\* step 8: prisma.payment.update({ status: 'CONFIRMED' })
ConfirmUpdate(r, ok) ==
    /\ reqs[r].endpoint = "confirm" /\ reqs[r].pc = "update"
    /\ MayFault(ok) /\ CountFault(ok)
    /\ IF ok
       THEN /\ StatusUpdate(reqs[r].pid, "CONFIRMED")
            /\ reqs' = [reqs EXCEPT ![r].pc = "event"]
       ELSE /\ Respond(r, InternalError)
            /\ UNCHANGED <<payments, statusWrites>>
    /\ UNCHANGED <<events, idem, paymentQueue, webhookQueue, providerCalls, now, quote, feeds>>

\* step 9: prisma.event.create
ConfirmEvent(r, ok) ==
    /\ reqs[r].endpoint = "confirm" /\ reqs[r].pc = "event"
    /\ MayFault(ok) /\ CountFault(ok)
    /\ IF ok
       THEN /\ EventCreate(reqs[r].pid, "payment.confirmed", "CONFIRMED")
            /\ reqs' = [reqs EXCEPT ![r].pc = "enqueue"]
       ELSE /\ Respond(r, InternalError)
            /\ UNCHANGED events
    /\ UNCHANGED <<payments, idem, paymentQueue, webhookQueue, statusWrites,
                   providerCalls, now, quote, feeds>>

\* step 10: paymentQueue.add('process-payment', { paymentId })
ConfirmEnqueue(r, ok) ==
    /\ reqs[r].endpoint = "confirm" /\ reqs[r].pc = "enqueue"
    /\ Len(paymentQueue) < MaxJobs
    /\ MayFault(ok) /\ CountFault(ok)
    /\ IF ok
       THEN /\ paymentQueue' = Append(paymentQueue, NewJob(reqs[r].pid))
            /\ reqs' = [reqs EXCEPT ![r].pc = "store"]
       ELSE /\ Respond(r, InternalError)
            /\ UNCHANGED paymentQueue
    /\ UNCHANGED <<payments, events, idem, webhookQueue, statusWrites,
                   providerCalls, now, quote, feeds>>

\* steps 11-12: response, storeIdempotency, return
ConfirmStore(r, ok) ==
    /\ reqs[r].endpoint = "confirm" /\ reqs[r].pc = "store"
    /\ MayFault(ok) /\ CountFault(ok)
    /\ LET response == Json(200, [payment_id |-> reqs[r].pid,
                                  status |-> "CONFIRMED",
                                  processing |-> TRUE])
       IN  IF ok
           THEN /\ idem' = storeIdempotency("confirm", DEMO_USER_ID, reqs[r].key,
                                            reqs[r].body, response)
                /\ Respond(r, response)
           ELSE /\ Respond(r, InternalError)
                /\ UNCHANGED idem
    /\ UNCHANGED <<payments, events, paymentQueue, webhookQueue, statusWrites,
                   providerCalls, now, quote, feeds>>

----------------------------------------------------------------------------
(* Payment orchestrator worker *)

\* the updateStatus calls of the job handler, named by the status they write
StatusSteps ==
    {"ONRAMP_PENDING", "ONRAMP_COMPLETED", "OFFRAMP_PENDING", "OFFRAMP_COMPLETED",
     "COMPLETED", "FAILED"}

\* the statement after each updateStatus call of the try block
AfterUpdateStatus(pc) ==
    CASE pc = "ONRAMP_PENDING"    -> "onramp"
      [] pc = "ONRAMP_COMPLETED"  -> "OFFRAMP_PENDING"
      [] pc = "OFFRAMP_PENDING"   -> "offramp"
      [] pc = "OFFRAMP_COMPLETED" -> "COMPLETED"
      [] pc = "COMPLETED"         -> "completedAt"

Active == {j \in DOMAIN paymentQueue : paymentQueue[j].state = "active"}

At(j, pc) == paymentQueue[j].state = "active" /\ paymentQueue[j].pc = pc

Goto(job, pc) ==
    [job EXCEPT !.pc = pc, !.sub = IF pc \in StatusSteps THEN "update" ELSE "none"]

\* the handler threw: the queue counts the attempt and retries while attempts remain
AttemptFailed(job) ==
    [job EXCEPT !.attemptsMade = @ + 1,
                !.state = IF job.attemptsMade + 1 < Attempts THEN "waiting" ELSE "failed",
                !.pc = "idle", !.sub = "none", !.txId = NULL]

\* a handler without the catch block: every exception leaves the handler at once
Throw_NoCatch(job) == AttemptFailed(job)

\* an exception at the job's position: into the catch block from the try block,
\* out of the handler from the catch block
Throw(job) == IF job.pc = "FAILED" THEN AttemptFailed(job) ELSE Goto(job, "FAILED")

\* the worker takes a waiting job and fetches the payment
ProcessJob(j) ==
    /\ paymentQueue[j].state = "waiting"
    /\ Cardinality(Active) < Concurrency
    /\ LET job == [paymentQueue[j] EXCEPT !.state = "active"]
       IN  paymentQueue' = [paymentQueue EXCEPT ![j] =
                IF job.paymentId \in DOMAIN payments
                THEN Goto(job, "ONRAMP_PENDING") ELSE Goto(job, "FAILED")]
    /\ UNCHANGED <<payments, events, idem, webhookQueue, reqs, statusWrites,
                   providerCalls, faults, now, quote, feeds>>

\* updateStatus, first await: prisma.payment.update
UpdateStatusWrite(j, ok) ==
    /\ paymentQueue[j].state = "active" /\ paymentQueue[j].sub = "update"
    /\ MayFault(ok) /\ CountFault(ok)
    /\ IF ok
       THEN /\ StatusUpdate(paymentQueue[j].paymentId, paymentQueue[j].pc)
            /\ paymentQueue' = [paymentQueue EXCEPT ![j].sub = "event"]
       ELSE /\ paymentQueue' = [paymentQueue EXCEPT ![j] = Throw(@)]
            /\ UNCHANGED <<payments, statusWrites>>
    /\ UNCHANGED <<events, idem, webhookQueue, reqs, providerCalls, now, quote, feeds>>

\* updateStatus, second await: prisma.event.create; then the handler goes on
UpdateStatusEvent(j, ok) ==
    /\ paymentQueue[j].state = "active" /\ paymentQueue[j].sub = "event"
    /\ MayFault(ok) /\ CountFault(ok)
    /\ LET job == paymentQueue[j]
       IN  IF ok
           THEN /\ EventCreate(job.paymentId, eventType(job.pc), job.pc)
                /\ paymentQueue' = [paymentQueue EXCEPT ![j] =
                       IF job.pc = "FAILED" THEN AttemptFailed(job)
                       ELSE Goto(job, AfterUpdateStatus(job.pc))]
           ELSE /\ paymentQueue' = [paymentQueue EXCEPT ![j] = Throw(job)]
                /\ UNCHANGED events
    /\ UNCHANGED <<payments, idem, webhookQueue, reqs, statusWrites, providerCalls, now, quote, feeds>>

\* the outcomes of mockOnramp: a result with a fresh txId, or an error
mockOnramp(params) == {[ok |-> TRUE, txId |-> params.call], [ok |-> FALSE, txId |-> NULL]}

\* the outcomes of mockOfframp: a result with a fresh txId, or a compliance hold
mockOfframp(params) == {[ok |-> TRUE, txId |-> params.call], [ok |-> FALSE, txId |-> NULL]}

\* every payment taken for an ACH payment
onrampMethod_Ach(payment) == "ach"

\* payment.onrampFee.toString() === '0' ? 'ach' : 'card'
onrampMethod(payment) == IF ToString(payment.onrampFee) = "0" THEN "ach" ELSE "card"

\* await mockOnramp({ amount, method, userId })
Onramp(j) ==
    /\ At(j, "onramp")
    /\ LET job == paymentQueue[j]
           payment == payments[job.paymentId]
           calls == providerCalls[job.paymentId]
       IN  \E result \in mockOnramp([amount |-> payment.amount,
                                     method |-> onrampMethod(payment),
                                     userId |-> payment.userId,
                                     call   |-> calls.onramp + 1]) :
             /\ providerCalls' = [providerCalls EXCEPT ![job.paymentId] =
                    [calls EXCEPT !.onramp = @ + 1,
                                  !.charged = IF result.ok THEN @ + 1 ELSE @,
                                  !.method = onrampMethod(payment)]]
             /\ paymentQueue' = [paymentQueue EXCEPT ![j] =
                    IF result.ok THEN [Goto(job, "onrampTx") EXCEPT !.txId = result.txId]
                    ELSE Throw(job)]
    /\ UNCHANGED <<payments, events, idem, webhookQueue, reqs, statusWrites, faults, now, quote, feeds>>

\* await mockOfframp({ usdc, currency, userId })
Offramp(j) ==
    /\ At(j, "offramp")
    /\ LET job == paymentQueue[j]
           payment == payments[job.paymentId]
           calls == providerCalls[job.paymentId]
       IN  \E result \in mockOfframp([usdc |-> payment.usdcSent,
                                      currency |-> payment.destCurrency,
                                      userId |-> payment.userId,
                                      call   |-> calls.offramp + 1]) :
             /\ providerCalls' = [providerCalls EXCEPT ![job.paymentId].offramp = @ + 1]
             /\ paymentQueue' = [paymentQueue EXCEPT ![j] =
                    IF result.ok THEN [Goto(job, "offrampTx") EXCEPT !.txId = result.txId]
                    ELSE Throw(job)]
    /\ UNCHANGED <<payments, events, idem, webhookQueue, reqs, statusWrites, faults, now, quote, feeds>>

\* the update also storing the amount received from the onramp as usdcSent
PersistOnrampTx_Overwrites(j, ok) ==
    /\ At(j, "onrampTx")
    /\ MayFault(ok) /\ CountFault(ok)
    /\ LET job == paymentQueue[j]
       IN  IF ok
           THEN /\ payments' = [payments EXCEPT ![job.paymentId].onrampTxId = job.txId,
                                                ![job.paymentId].usdcSent =
                                                    payments[job.paymentId].amount]
                /\ paymentQueue' = [paymentQueue EXCEPT ![j] = Goto(job, "ONRAMP_COMPLETED")]
           ELSE /\ paymentQueue' = [paymentQueue EXCEPT ![j] = Throw(job)]
                /\ UNCHANGED payments
    /\ UNCHANGED <<events, idem, webhookQueue, reqs, statusWrites, providerCalls, now, quote, feeds>>

\* prisma.payment.update({ data: { onrampTxId } })
PersistOnrampTx(j, ok) ==
    /\ At(j, "onrampTx")
    /\ MayFault(ok) /\ CountFault(ok)
    /\ LET job == paymentQueue[j]
       IN  IF ok
           THEN /\ payments' = [payments EXCEPT ![job.paymentId].onrampTxId = job.txId]
                /\ paymentQueue' = [paymentQueue EXCEPT ![j] = Goto(job, "ONRAMP_COMPLETED")]
           ELSE /\ paymentQueue' = [paymentQueue EXCEPT ![j] = Throw(job)]
                /\ UNCHANGED payments
    /\ UNCHANGED <<events, idem, webhookQueue, reqs, statusWrites, providerCalls, now, quote, feeds>>

\* the handler going on to OFFRAMP_COMPLETED without storing the offramp id
PersistOfframpTx_Skipped(j, ok) ==
    /\ At(j, "offrampTx")
    /\ MayFault(ok) /\ CountFault(ok)
    /\ paymentQueue' = [paymentQueue EXCEPT ![j] =
           IF ok THEN Goto(paymentQueue[j], "OFFRAMP_COMPLETED") ELSE Throw(paymentQueue[j])]
    /\ UNCHANGED <<payments, events, idem, webhookQueue, reqs, statusWrites, providerCalls,
                   now, quote, feeds>>

\* prisma.payment.update({ data: { offrampTxId } })
PersistOfframpTx(j, ok) ==
    /\ At(j, "offrampTx")
    /\ MayFault(ok) /\ CountFault(ok)
    /\ LET job == paymentQueue[j]
       IN  IF ok
           THEN /\ payments' = [payments EXCEPT ![job.paymentId].offrampTxId = job.txId]
                /\ paymentQueue' = [paymentQueue EXCEPT ![j] = Goto(job, "OFFRAMP_COMPLETED")]
           ELSE /\ paymentQueue' = [paymentQueue EXCEPT ![j] = Throw(job)]
                /\ UNCHANGED payments
    /\ UNCHANGED <<events, idem, webhookQueue, reqs, statusWrites, providerCalls, now, quote, feeds>>

\* prisma.payment.update({ data: { completedAt } }); the handler returns
SetCompletedAt(j, ok) ==
    /\ At(j, "completedAt")
    /\ MayFault(ok) /\ CountFault(ok)
    /\ LET job == paymentQueue[j]
       IN  IF ok
           THEN /\ payments' = [payments EXCEPT ![job.paymentId].completedAt = now]
                /\ paymentQueue' = [paymentQueue EXCEPT ![j] =
                       [job EXCEPT !.state = "completed", !.pc = "idle", !.txId = NULL]]
           ELSE /\ paymentQueue' = [paymentQueue EXCEPT ![j] = Throw(job)]
                /\ UNCHANGED payments
    /\ UNCHANGED <<events, idem, webhookQueue, reqs, statusWrites, providerCalls, now, quote, feeds>>

----------------------------------------------------------------------------
(* POST /api/v1/quote *)

quoteSchema(body) ==
    /\ body.amount >= FEE_CONFIG.limits.min
    /\ body.amount <= FEE_CONFIG.limits.max
    /\ body.destination_currency \in DOMAIN FEE_CONFIG.corridor
    /\ body.payment_method \in DOMAIN FEE_CONFIG.onramp
    /\ body.fee_handling \in {"inclusive", "additive"}

\* the documented example: 100 USD to MXN via ACH
ExampleBody ==
    [amount |-> 100 * 100, destination_currency |-> "MXN",
     payment_method |-> "ach", fee_handling |-> "inclusive"]

\* two-decimal amounts at both ends of the accepted range, one beyond each end,
\* and the amount of the example
QuoteAmounts ==
    {FEE_CONFIG.limits.min + k : k \in -1..MaxCents}
        \cup {FEE_CONFIG.limits.max - k : k \in -1..MaxCents}
        \cup {ExampleBody.amount}

QuoteBodies ==
    [amount : QuoteAmounts,
     destination_currency : DOMAIN FEE_CONFIG.corridor,
     payment_method : DOMAIN FEE_CONFIG.onramp,
     fee_handling : {"inclusive", "additive"}]

\* a quote request is received
QuoteArrives(body) ==
    /\ quote' = [NoQuote EXCEPT !.body = body]
    /\ UNCHANGED <<payments, events, idem, paymentQueue, webhookQueue, reqs,
                   statusWrites, providerCalls, faults, now, feeds>>

\* the 200 response of the quote handler
QuoteResponse(rate, fees, destAmount) ==
    Json(200, [expires_at    |-> now + QuoteLifetime,
               exchange_rate |-> rate,
               breakdown     |-> [input_amount       |-> fees.input_amount,
                                  fees               |-> fees.fees,
                                  usdc_sent          |-> fees.usdc_sent,
                                  destination_amount |-> destAmount,
                                  effective_rate     |->
                                      calculateEffectiveRate(quote.body.amount, destAmount)],
               margin        |-> fees.fees.platform])

\* the handler validates the body, fetches the rate, prices the request and
\* returns the breakdown; it writes nothing
Quote ==
    /\ quote.body # IdleReq.body /\ quote.resp = IdleReq.resp
    /\ IF ~quoteSchema(quote.body)
       THEN quote' = [quote EXCEPT !.resp = InvalidRequest]
       ELSE LET rate == getExchangeRate("USD", quote.body.destination_currency)
            IN  \E fees \in calculateFeesDouble(quote.body) :
                \E destAmount \in calculateDestinationAmount(fees.usdc_sent, rate) :
                    quote' = [quote EXCEPT !.fees = fees,
                                           !.resp = QuoteResponse(rate, fees, destAmount)]
    /\ UNCHANGED <<payments, events, idem, paymentQueue, webhookQueue, reqs,
                   statusWrites, providerCalls, faults, now, feeds>>

\* a quote request with any of the bodies has just been received
InitQuote == InitStore /\ quote \in {[NoQuote EXCEPT !.body = b] : b \in QuoteBodies}

----------------------------------------------------------------------------
(* getExchangeRate: the rate lookup with its redis cache, call by call *)

CACHE_TTL == 30

\* rate.toString() and parseFloat(cached): the decimal string of a number and
\* the number a decimal string denotes
toString(rate) == <<"decimal", rate>>
parseFloat(cached) == cached[2]

\* the rates the upstream API may return for a currency (in 1/1000); they
\* differ from the fallback rate
UpstreamRates(to) ==
    IF to \in DOMAIN FALLBACK_RATES
    THEN {FALLBACK_RATES[to] + 100, FALLBACK_RATES[to] + 200}
    ELSE {920}

\* what the upstream fetch yields: the API is down or answers not ok, the
\* answer lacks the currency, or it holds a rate for it
UpstreamOutcomes(to) ==
    {[kind |-> "down", rate |-> 0], [kind |-> "lacks", rate |-> 0]}
        \cup {[kind |-> "rate", rate |-> r] : r \in UpstreamRates(to)}

\* what a call yields: a rate returned or an error thrown
Returned(rate) == [kind |-> "rate", value |-> rate]
OnlyUsdError == [kind |-> "Only USD as source currency is supported", value |-> 0]
RateUnavailable == [kind |-> "No exchange rate available", value |-> 0]

\* getExchangeRate(from, to) is called; a source other than USD throws at once
RateCall(from, to) ==
    /\ rateCall.pc = "idle"
    /\ rateCall.calls < MaxRateCalls
    /\ rateCall' = [NoRateCall EXCEPT !.from = from, !.to = to,
                                      !.calls = rateCall.calls + 1,
                                      !.pc = IF from = "USD" THEN "get" ELSE "idle",
                                      !.result = IF from = "USD" THEN NoResult
                                                 ELSE OnlyUsdError]
    /\ UNCHANGED <<payments, events, idem, paymentQueue, webhookQueue, reqs, statusWrites,
                   providerCalls, faults, now, quote, deliveries, stream, userStream,
                   rateCache>>

\* redis.get(cacheKey): a hit returns the cached value, a miss goes on to the
\* upstream fetch, a redis error is caught
RateGet(ok) ==
    /\ rateCall.pc = "get"
    /\ MayFault(ok) /\ CountFault(ok)
    /\ LET cached == rateCache[rateCall.to]
       IN  rateCall' =
               IF ~ok THEN [rateCall EXCEPT !.pc = "catch"]
               ELSE IF cached # NoEntry
                    THEN [rateCall EXCEPT !.pc = "idle",
                                          !.result = Returned(parseFloat(cached.value))]
               ELSE [rateCall EXCEPT !.pc = "fetch"]
    /\ UNCHANGED <<payments, events, idem, paymentQueue, webhookQueue, reqs, statusWrites,
                   providerCalls, now, quote, deliveries, stream, userStream, rateCache>>

\* fetch(EXCHANGE_API_URL) and data.rates[to]
RateFetch(outcome) ==
    /\ rateCall.pc = "fetch"
    /\ rateCall' = IF outcome.kind \in {"down", "lacks"}
                   THEN [rateCall EXCEPT !.pc = "catch", !.fetches = @ + 1]
                   ELSE [rateCall EXCEPT !.pc = "setex", !.fetches = @ + 1,
                                         !.rate = outcome.rate]
    /\ UNCHANGED <<payments, events, idem, paymentQueue, webhookQueue, reqs, statusWrites,
                   providerCalls, faults, now, quote, deliveries, stream, userStream,
                   rateCache>>

\* redis.setex(cacheKey, CACHE_TTL, rate.toString()) and return rate; a redis
\* error is caught
RateSetex(ok) ==
    /\ rateCall.pc = "setex"
    /\ MayFault(ok) /\ CountFault(ok)
    /\ IF ok
       THEN /\ rateCache' = [rateCache EXCEPT ![rateCall.to] =
                                 [value |-> toString(rateCall.rate), ttl |-> CACHE_TTL]]
            /\ rateCall' = [rateCall EXCEPT !.pc = "idle", !.result = Returned(rateCall.rate)]
       ELSE /\ rateCall' = [rateCall EXCEPT !.pc = "catch"]
            /\ UNCHANGED rateCache
    /\ UNCHANGED <<payments, events, idem, paymentQueue, webhookQueue, reqs, statusWrites,
                   providerCalls, now, quote, deliveries, stream, userStream>>

\* the catch block: the fallback rate, or the error when the table lacks the
\* currency
RateCatch ==
    /\ rateCall.pc = "catch"
    /\ rateCall' = [rateCall EXCEPT
                        !.pc = "idle",
                        !.result = IF rateCall.to \in DOMAIN FALLBACK_RATES
                                   THEN Returned(FALLBACK_RATES[rateCall.to])
                                   ELSE RateUnavailable]
    /\ UNCHANGED <<payments, events, idem, paymentQueue, webhookQueue, reqs, statusWrites,
                   providerCalls, faults, now, quote, deliveries, stream, userStream,
                   rateCache>>

\* redis drops a rate key when its TTL has run out
RateExpire(to) ==
    /\ rateCache[to] # NoEntry
    /\ rateCache' = [rateCache EXCEPT ![to] = NoEntry]
    /\ UNCHANGED <<payments, events, idem, paymentQueue, webhookQueue, reqs, statusWrites,
                   providerCalls, faults, now, quote, deliveries, stream, userStream,
                   rateCall>>

----------------------------------------------------------------------------
(* Webhook delivery worker *)

WEBHOOK_SECRET == "demo-secret-key"

\* event types a webhook job may carry
WebhookEventTypes == {"payment.completed"}

\* createHmac('sha256', WEBHOOK_SECRET).update(JSON.stringify(payload)).digest('hex')
signWebhook(payload) == <<"hmac-sha256", WEBHOOK_SECRET, payload>>

\* the payload built from the payment row that was read
WebhookPayload(payment, type) ==
    [event_type |-> type,
     api_version |-> "2025-01",
     data |-> [payment_id           |-> payment.id,
               status               |-> payment.status,
               amount               |-> payment.amount,
               destination_currency |-> payment.destCurrency,
               exchange_rate        |-> payment.exchangeRate,
               fees                 |-> [onramp      |-> payment.onrampFee,
                                         corridor    |-> payment.corridorFee,
                                         platform    |-> payment.platformFee,
                                         network_gas |-> payment.networkGas,
                                         total       |-> payment.totalFees],
               usdc_sent            |-> payment.usdcSent,
               destination_amount   |-> payment.destAmount,
               onramp_tx_id         |-> payment.onrampTxId,
               offramp_tx_id        |-> payment.offrampTxId,
               completed_at         |-> payment.completedAt]]

NoPayload == [none |-> TRUE]

\* a job {paymentId, eventType} is added to the webhook-delivery queue
WebhookAdd(paymentId, type) ==
    /\ Len(webhookQueue) < MaxHooks
    /\ webhookQueue' = Append(webhookQueue,
           [paymentId |-> paymentId, eventType |-> type, pc |-> "wait",
            attemptsMade |-> 0, payload |-> NoPayload])
    /\ UNCHANGED <<payments, events, idem, paymentQueue, reqs, statusWrites,
                   providerCalls, faults, now, quote, feeds>>

\* the delivery also recorded in the payment's event log
WebhookDeliveryCreate_Logged(row) ==
    /\ deliveries' = Append(deliveries, row)
    /\ events' = Append(events, [paymentId |-> row.paymentId,
                                 eventType |-> "webhook.delivered",
                                 status |-> row.status, timestamp |-> now])

\* prisma.webhookDelivery.create
WebhookDeliveryCreate(row) ==
    /\ deliveries' = Append(deliveries, row)
    /\ UNCHANGED events

\* the worker takes the job: it returns at once when webhooks are disabled,
\* otherwise reads the payment and builds the payload
WebhookFetch(j, enabled) ==
    /\ webhookQueue[j].pc = "wait"
    /\ LET job == webhookQueue[j]
       IN  webhookQueue' = [webhookQueue EXCEPT ![j] =
               IF ~enabled THEN [job EXCEPT !.pc = "completed"]
               ELSE IF job.paymentId \notin DOMAIN payments
                    THEN [job EXCEPT !.pc = "catch"]
               ELSE [job EXCEPT !.pc = "create",
                                !.payload = WebhookPayload(payments[job.paymentId],
                                                           job.eventType)]]
    /\ UNCHANGED <<payments, events, idem, paymentQueue, reqs, statusWrites,
                   providerCalls, faults, now, quote, feeds>>

\* the delivery record of a delivered webhook is stored
WebhookDelivered(j, ok) ==
    /\ webhookQueue[j].pc = "create"
    /\ MayFault(ok) /\ CountFault(ok)
    /\ LET job == webhookQueue[j]
       IN  IF ok
           THEN /\ WebhookDeliveryCreate(
                       [paymentId |-> job.paymentId, eventType |-> job.eventType,
                        payload |-> job.payload, status |-> "DELIVERED", attempts |-> 1,
                        signature |-> signWebhook(job.payload), responseStatus |-> 200,
                        lastAttemptAt |-> now, nextRetryAt |-> NULL])
                /\ webhookQueue' = [webhookQueue EXCEPT ![j] =
                       [job EXCEPT !.pc = "completed", !.payload = NoPayload]]
           ELSE /\ webhookQueue' = [webhookQueue EXCEPT ![j] =
                       [job EXCEPT !.pc = "catch", !.payload = NoPayload]]
                /\ UNCHANGED <<deliveries, events>>
    /\ UNCHANGED <<payments, idem, paymentQueue, reqs, statusWrites,
                   providerCalls, now, quote, stream, userStream, fx>>

\* the catch block: the failed delivery is recorded and the error is thrown
\* again; the queue retries the job until its attempts are used up
WebhookFailed(j, ok) ==
    /\ webhookQueue[j].pc = "catch"
    /\ MayFault(ok) /\ CountFault(ok)
    /\ LET job == webhookQueue[j]
       IN  /\ IF ok
              THEN WebhookDeliveryCreate(
                       [paymentId |-> job.paymentId, eventType |-> job.eventType,
                        payload |-> NoPayload, status |-> "FAILED",
                        attempts |-> job.attemptsMade, signature |-> "",
                        responseStatus |-> NULL, lastAttemptAt |-> now,
                        nextRetryAt |-> IF job.attemptsMade < 3 THEN now ELSE NULL])
              ELSE UNCHANGED <<deliveries, events>>
           /\ webhookQueue' = [webhookQueue EXCEPT ![j] =
                  [job EXCEPT !.attemptsMade = @ + 1,
                              !.pc = IF job.attemptsMade + 1 < Attempts
                                     THEN "wait" ELSE "failed"]]
    /\ UNCHANGED <<payments, idem, paymentQueue, reqs, statusWrites,
                   providerCalls, now, quote, stream, userStream, fx>>

----------------------------------------------------------------------------
(* GET /api/v1/events/[paymentId]: the event stream of one payment *)

\* prisma.event.findMany({ where: { paymentId in ids, timestamp > after },
\* orderBy: { timestamp: 'asc' } }): the ids of the rows found. Rows are
\* inserted with the clock's value, so insertion order is ascending order; rows
\* of equal timestamp are returned in insertion order.
findEvents(ids, after) ==
    SelectSeq([k \in 1..Len(events) |-> k],
              LAMBDA k : events[k].paymentId \in ids /\ events[k].timestamp > after)

\* the frames controller.enqueue receives for the rows found
EventFrames(name, found) == [i \in 1..Len(found) |-> [event |-> name, id |-> found[i]]]

CompleteFrame(status) == [event |-> "payment.complete", status |-> status]

\* the timestamp of the last row of a result, or the mark as it was
LastTimestamp(found, mark) ==
    IF found = <<>> THEN mark ELSE events[found[Len(found)]].timestamp

RemoveAt(s, i) == SubSeq(s, 1, i - 1) \o SubSeq(s, i + 1, Len(s))

\* the handler looks the payment up and returns the stream or a 404
StreamConnect(p) ==
    /\ stream.pc = "none"
    /\ stream' = IF p \in DOMAIN payments
                 THEN [stream EXCEPT !.pc = "start", !.paymentId = p]
                 ELSE [stream EXCEPT !.pc = "notfound", !.paymentId = p]
    /\ UNCHANGED <<payments, events, idem, paymentQueue, webhookQueue, reqs, statusWrites,
                   providerCalls, faults, now, quote, deliveries, userStream, fx>>

\* start(): the initial events are sent oldest first and the poll timer is set
StreamStart ==
    /\ stream.pc = "start"
    /\ LET found == findEvents({stream.paymentId}, Epoch)
       IN  stream' = [stream EXCEPT !.pc = "open",
                                    !.frames = @ \o EventFrames("payment.event", found),
                                    !.lastTimestamp = LastTimestamp(found, Epoch)]
    /\ UNCHANGED <<payments, events, idem, paymentQueue, webhookQueue, reqs, statusWrites,
                   providerCalls, faults, now, quote, deliveries, userStream, fx>>

\* the timer fires and the callback queries the events after lastTimestamp; the
\* timer does not wait for callbacks that are still running, of which there
\* are fewer than n
StreamPoll(n) ==
    /\ stream.pc = "open"
    /\ Len(stream.polls) < n
    /\ stream' = [stream EXCEPT !.polls =
           Append(@, [at |-> "events",
                      newEvents |-> findEvents({stream.paymentId}, stream.lastTimestamp)])]
    /\ UNCHANGED <<payments, events, idem, paymentQueue, webhookQueue, reqs, statusWrites,
                   providerCalls, faults, now, quote, deliveries, userStream, fx>>

\* the callback sends the events found and moves lastTimestamp to the last of
\* them; enqueue on a closed controller throws, which ends the callback
StreamPush(i) ==
    /\ stream.polls[i].at = "events"
    /\ LET newEvents == stream.polls[i].newEvents
       IN  stream' =
               IF stream.pc # "open" /\ newEvents # <<>>
               THEN [stream EXCEPT !.polls = RemoveAt(@, i), !.lateEnqueues = @ + 1]
               ELSE [stream EXCEPT !.polls[i].at = "status",
                                   !.polls[i].newEvents = <<>>,
                                   !.frames = @ \o EventFrames("payment.event", newEvents),
                                   !.lastTimestamp = LastTimestamp(newEvents, @)]
    /\ UNCHANGED <<payments, events, idem, paymentQueue, webhookQueue, reqs, statusWrites,
                   providerCalls, faults, now, quote, deliveries, userStream, fx>>

\* the callback reads the payment's status: in a terminal state it sends the
\* payment.complete frame, clears the timer and closes the stream; on a closed
\* controller the enqueue of the frame throws, which ends the callback
StreamCheck(i) ==
    /\ stream.polls[i].at = "status"
    /\ LET status == payments[stream.paymentId].status
       IN  stream' =
               IF status \in {"COMPLETED", "FAILED"} /\ stream.pc = "open"
               THEN [stream EXCEPT !.polls = RemoveAt(@, i), !.pc = "closed",
                                   !.frames = Append(@, CompleteFrame(status)),
                                   !.closeCalls = @ + 1]
               ELSE IF status \in {"COMPLETED", "FAILED"}
               THEN [stream EXCEPT !.polls = RemoveAt(@, i), !.lateEnqueues = @ + 1]
               ELSE [stream EXCEPT !.polls = RemoveAt(@, i)]
    /\ UNCHANGED <<payments, events, idem, paymentQueue, webhookQueue, reqs, statusWrites,
                   providerCalls, faults, now, quote, deliveries, userStream, fx>>

\* the client disconnects, once per request: the listener clears the timer and
\* calls controller.close(), whether or not a callback has closed it before
StreamAbort ==
    /\ stream.pc \in {"open", "closed"}
    /\ stream.signal = "live"
    /\ stream' = [stream EXCEPT !.signal = "aborted",
                                !.closeCalls = @ + 1,
                                !.pc = IF @ = "open" THEN "aborted" ELSE @]
    /\ UNCHANGED <<payments, events, idem, paymentQueue, webhookQueue, reqs, statusWrites,
                   providerCalls, faults, now, quote, deliveries, userStream, fx>>

----------------------------------------------------------------------------
(* GET /api/v1/events/user/[userId]: the event stream of a user *)

\* prisma.payment.findMany({ where: { userId } }): the ids of the user's payments
findPayments(userId) == {p \in DOMAIN payments : payments[p].userId = userId}

Reverse(s) == [i \in 1..Len(s) |-> s[Len(s) + 1 - i]]

\* the handler reads the user's payments and returns the stream
UserConnect ==
    /\ userStream.pc = "none"
    /\ userStream' = [userStream EXCEPT !.pc = "start", !.since = Len(events),
                                        !.userPayments = findPayments(DEMO_USER_ID)]
    /\ UNCHANGED <<payments, events, idem, paymentQueue, webhookQueue, reqs, statusWrites,
                   providerCalls, faults, now, quote, deliveries, stream, fx>>

\* start(): the events of the payments read at connect are sent newest first;
\* lastTimestamp is the timestamp of the newest
UserStart ==
    /\ userStream.pc = "start"
    /\ LET allEvents == Reverse(findEvents(userStream.userPayments, Epoch))
       IN  userStream' = [userStream EXCEPT
               !.pc = "open",
               !.frames = @ \o EventFrames("user.event", allEvents),
               !.lastTimestamp = IF allEvents = <<>> THEN Epoch
                                 ELSE events[allEvents[1]].timestamp]
    /\ UNCHANGED <<payments, events, idem, paymentQueue, webhookQueue, reqs, statusWrites,
                   providerCalls, faults, now, quote, deliveries, stream, fx>>

\* the timer fires and the callback reads the user's payments again
UserPoll ==
    /\ userStream.pc = "open"
    /\ Len(userStream.polls) < MaxOverlap
    /\ userStream' = [userStream EXCEPT !.polls =
           Append(@, [at |-> "events", currentPayments |-> findPayments(DEMO_USER_ID),
                      newEvents |-> <<>>])]
    /\ UNCHANGED <<payments, events, idem, paymentQueue, webhookQueue, reqs, statusWrites,
                   providerCalls, faults, now, quote, deliveries, stream, fx>>

\* the callback queries the events of those payments after lastTimestamp
UserFetch(i) ==
    /\ userStream.polls[i].at = "events"
    /\ userStream' = [userStream EXCEPT
           !.polls[i] = [at |-> "push", currentPayments |-> {},
                         newEvents |-> findEvents(userStream.polls[i].currentPayments,
                                                  userStream.lastTimestamp)]]
    /\ UNCHANGED <<payments, events, idem, paymentQueue, webhookQueue, reqs, statusWrites,
                   providerCalls, faults, now, quote, deliveries, stream, fx>>

\* the callback sends the events found and moves lastTimestamp to the last of
\* them; enqueue on a closed controller throws, which ends the callback
UserPush(i) ==
    /\ userStream.polls[i].at = "push"
    /\ LET newEvents == userStream.polls[i].newEvents
       IN  userStream' =
               IF userStream.pc # "open"
               THEN [userStream EXCEPT !.polls = RemoveAt(@, i)]
               ELSE [userStream EXCEPT
                        !.polls = RemoveAt(@, i),
                        !.frames = @ \o EventFrames("user.event", newEvents),
                        !.lastTimestamp = LastTimestamp(newEvents, @)]
    /\ UNCHANGED <<payments, events, idem, paymentQueue, webhookQueue, reqs, statusWrites,
                   providerCalls, faults, now, quote, deliveries, stream, fx>>

\* the client disconnects: the timer is cleared and the stream closed
UserAbort ==
    /\ userStream.pc = "open"
    /\ userStream' = [userStream EXCEPT !.pc = "aborted"]
    /\ UNCHANGED <<payments, events, idem, paymentQueue, webhookQueue, reqs, statusWrites,
                   providerCalls, faults, now, quote, deliveries, stream, fx>>

----------------------------------------------------------------------------
(* Time *)

Tick ==
    /\ now < MaxTime
    /\ now' = now + 1
    /\ UNCHANGED <<payments, events, idem, paymentQueue, webhookQueue, reqs,
                   statusWrites, providerCalls, faults, quote, feeds>>

----------------------------------------------------------------------------
(* The system *)

Requests == 1..MaxRequests
Jobs == DOMAIN paymentQueue

\* the keys a client may send next: those already used and one fresh key
UsedKeys == {reqs[r].key : r \in Requests} \ {"none"}
NextKeys == {Keys[i] : i \in {i \in DOMAIN Keys : \A h \in 1..(i - 1) : Keys[h] \in UsedKeys}}

\* the payment ids a client knows: those returned by initiate
KnownIds == {reqs[r].resp.body.payment_id :
                r \in {q \in Requests : /\ reqs[q].pc = "done"
                                         /\ reqs[q].endpoint = "initiate"
                                         /\ reqs[q].resp.status = 200}}

ConfirmBodies == {[payment_id |-> p] : p \in KnownIds \cup {UnknownId}}

InFlight == {r \in Requests : reqs[r].pc \notin {"idle", "done"}}

\* the HTTP handlers, serving at most n requests at once
NextApi(n) ==
    \/ \E r \in Requests, key \in NextKeys, body \in InitiateBodies :
           Cardinality(InFlight) < n /\ InitiateCheck(r, key, body)
    \/ \E r \in Requests, ok \in BOOLEAN : InitiateCreate(r, ok)
    \/ \E r \in Requests, ok \in BOOLEAN : InitiateEvent(r, ok)
    \/ \E r \in Requests, ok \in BOOLEAN : InitiateStore(r, ok)
    \/ \E r \in Requests, key \in NextKeys, body \in ConfirmBodies :
           Cardinality(InFlight) < n /\ ConfirmCheck(r, key, body)
    \/ \E r \in Requests : ConfirmFetch(r)
    \/ \E r \in Requests, ok \in BOOLEAN : ConfirmUpdate(r, ok)
    \/ \E r \in Requests, ok \in BOOLEAN : ConfirmEvent(r, ok)
    \/ \E r \in Requests, ok \in BOOLEAN : ConfirmEnqueue(r, ok)
    \/ \E r \in Requests, ok \in BOOLEAN : ConfirmStore(r, ok)

\* the worker process
NextWorker ==
    \/ \E j \in Jobs : ProcessJob(j)
    \/ \E j \in Jobs, ok \in BOOLEAN : UpdateStatusWrite(j, ok)
    \/ \E j \in Jobs, ok \in BOOLEAN : UpdateStatusEvent(j, ok)
    \/ \E j \in Jobs : Onramp(j)
    \/ \E j \in Jobs, ok \in BOOLEAN : PersistOnrampTx(j, ok)
    \/ \E j \in Jobs : Offramp(j)
    \/ \E j \in Jobs, ok \in BOOLEAN : PersistOfframpTx(j, ok)
    \/ \E j \in Jobs, ok \in BOOLEAN : SetCompletedAt(j, ok)

Next ==
    \/ NextApi(MaxRequests)
    \/ NextWorker
    \/ Tick
    \/ \E body \in QuoteBodies : QuoteArrives(body)
    \/ Quote

\* the whole system
Spec == Init /\ [][Next]_vars

\* the API serving concurrent requests, at most two in flight at once, while
\* no worker process runs
SpecApi == Init /\ [][NextApi(2)]_vars

\* a client that sends one request at a time, with the worker running
SpecSeq == Init /\ [][NextApi(1) \/ NextWorker]_vars

\* the number of requests that have been answered
Answered == Cardinality({r \in Requests : reqs[r].pc = "done"})

\* a request arrives while fewer than n are in flight and fewer than m have
\* been answered
Arrive(n, m) ==
    \/ \E r \in Requests, key \in NextKeys, body \in InitiateBodies :
           Cardinality(InFlight) < n /\ Answered < m /\ InitiateCheck(r, key, body)
    \/ \E r \in Requests, key \in NextKeys, body \in ConfirmBodies :
           Cardinality(InFlight) < n /\ Answered < m /\ ConfirmCheck(r, key, body)

\* a handler in flight takes its next step, the store and the queue not failing
HandlerStep ==
    \/ \E r \in Requests : InitiateCreate(r, TRUE)
    \/ \E r \in Requests : InitiateEvent(r, TRUE)
    \/ \E r \in Requests : InitiateStore(r, TRUE)
    \/ \E r \in Requests : ConfirmFetch(r)
    \/ \E r \in Requests : ConfirmUpdate(r, TRUE)
    \/ \E r \in Requests : ConfirmEvent(r, TRUE)
    \/ \E r \in Requests : ConfirmEnqueue(r, TRUE)
    \/ \E r \in Requests : ConfirmStore(r, TRUE)

\* the worker takes its next step, the store not failing; a provider returns a
\* result or raises
WorkerStep ==
    \/ \E j \in Jobs : ProcessJob(j)
    \/ \E j \in Jobs : UpdateStatusWrite(j, TRUE)
    \/ \E j \in Jobs : UpdateStatusEvent(j, TRUE)
    \/ \E j \in Jobs : Onramp(j)
    \/ \E j \in Jobs : PersistOnrampTx(j, TRUE)
    \/ \E j \in Jobs : Offramp(j)
    \/ \E j \in Jobs : PersistOfframpTx(j, TRUE)
    \/ \E j \in Jobs : SetCompletedAt(j, TRUE)

\* a client that sends one request at a time while the clock runs, with a store
\* that does not fail and no worker process
SpecClock == Init /\ [][Arrive(1, MaxClientRequests) \/ HandlerStep \/ Tick]_vars

\* the webhook worker, with jobs for known and unknown payments
NextWebhook ==
    \/ \E p \in DOMAIN payments \cup {UnknownId}, type \in WebhookEventTypes :
           WebhookAdd(p, type)
    \/ \E j \in DOMAIN webhookQueue, enabled \in BOOLEAN : WebhookFetch(j, enabled)
    \/ \E j \in DOMAIN webhookQueue, ok \in BOOLEAN : WebhookDelivered(j, ok)
    \/ \E j \in DOMAIN webhookQueue, ok \in BOOLEAN : WebhookFailed(j, ok)

\* a sequential client, the payment worker and the webhook worker; only the
\* writes of the webhook worker may fail
SpecHooks ==
    Init /\ [][Arrive(1, MaxClientRequests) \/ HandlerStep \/ WorkerStep \/ NextWebhook]_vars

\* calls of getExchangeRate, one at a time, with a cache that may fail and
\* whose keys expire
NextRate ==
    \/ \E from \in {"USD", "MXN"}, to \in Currencies : RateCall(from, to)
    \/ \E ok \in BOOLEAN : RateGet(ok)
    \/ \E outcome \in UpstreamOutcomes(rateCall.to) : RateFetch(outcome)
    \/ \E ok \in BOOLEAN : RateSetex(ok)
    \/ RateCatch
    \/ \E to \in Currencies : RateExpire(to)

SpecRate == Init /\ [][NextRate]_vars

\* the event stream of one payment, of a known one or an unknown one, with at
\* most n callbacks of the timer running at once
NextStream(n) ==
    \/ \E p \in DOMAIN payments \cup {UnknownId} : StreamConnect(p)
    \/ StreamStart
    \/ StreamPoll(n)
    \/ \E i \in DOMAIN stream.polls : StreamPush(i)
    \/ \E i \in DOMAIN stream.polls : StreamCheck(i)
    \/ StreamAbort

\* the event stream of the user
NextUserStream ==
    \/ UserConnect
    \/ UserStart
    \/ UserPoll
    \/ \E i \in DOMAIN userStream.polls : UserFetch(i)
    \/ \E i \in DOMAIN userStream.polls : UserPush(i)
    \/ UserAbort

\* the clock has advanced since the newest event was written
Distinct == IF events = <<>> THEN TRUE ELSE events[Len(events)].timestamp < now

\* the clock advances after an event has been written
TickAfterWrite ==
    /\ ~Distinct
    /\ now' = now + 1
    /\ UNCHANGED <<payments, events, idem, paymentQueue, webhookQueue, reqs,
                   statusWrites, providerCalls, faults, quote, feeds>>

\* the steps of a sequential client and of the handlers, the store not failing,
\* each taken when the clock has advanced since the last event
StreamApi ==
    \/ \E r \in Requests, key \in NextKeys, body \in InitiateBodies :
           /\ Distinct /\ InFlight = {} /\ Answered < MaxClientRequests
           /\ InitiateCheck(r, key, body)
    \/ \E r \in Requests, key \in NextKeys, body \in ConfirmBodies :
           /\ Distinct /\ InFlight = {} /\ Answered < MaxClientRequests
           /\ ConfirmCheck(r, key, body)
    \/ \E r \in Requests : Distinct /\ InitiateCreate(r, TRUE)
    \/ \E r \in Requests : Distinct /\ InitiateEvent(r, TRUE)
    \/ \E r \in Requests : Distinct /\ InitiateStore(r, TRUE)
    \/ \E r \in Requests : Distinct /\ ConfirmFetch(r)
    \/ \E r \in Requests : Distinct /\ ConfirmUpdate(r, TRUE)
    \/ \E r \in Requests : Distinct /\ ConfirmEvent(r, TRUE)
    \/ \E r \in Requests : Distinct /\ ConfirmEnqueue(r, TRUE)
    \/ \E r \in Requests : Distinct /\ ConfirmStore(r, TRUE)

\* the steps of the worker, the store not failing and the providers returning
\* a result, each taken when the clock has advanced since the last event
StreamWorker ==
    \/ \E j \in Jobs : Distinct /\ ProcessJob(j)
    \/ \E j \in Jobs : Distinct /\ UpdateStatusWrite(j, TRUE)
    \/ \E j \in Jobs : Distinct /\ UpdateStatusEvent(j, TRUE)
    \/ \E j \in Jobs : Distinct /\ Onramp(j) /\ paymentQueue'[j].pc = "onrampTx"
    \/ \E j \in Jobs : Distinct /\ PersistOnrampTx(j, TRUE)
    \/ \E j \in Jobs : Distinct /\ Offramp(j) /\ paymentQueue'[j].pc = "offrampTx"
    \/ \E j \in Jobs : Distinct /\ PersistOfframpTx(j, TRUE)
    \/ \E j \in Jobs : Distinct /\ SetCompletedAt(j, TRUE)

\* a client streams the events of a payment while a sequential client drives
\* the payment and the worker processes it; the store does not fail, the
\* providers return a result, no two events are written at the same clock
\* value, and each callback of the timer ends before the timer fires again
SpecStream ==
    Init /\ [][StreamApi \/ StreamWorker \/ TickAfterWrite \/ NextStream(1)]_vars

\* a client streams the events of a payment while a sequential client
\* initiates and confirms it and no worker runs; callbacks of the timer overlap
SpecOverlap ==
    Init /\ [][StreamApi \/ TickAfterWrite \/ NextStream(MaxOverlap)]_vars

\* a client streams the events of the user while a sequential client initiates
\* and confirms and the clock runs; the store does not fail, the timer keeps
\* firing and every callback runs to its end
SpecUserStream ==
    /\ Init
    /\ [][Arrive(1, MaxClientRequests) \/ HandlerStep \/ Tick \/ NextUserStream]_vars
    /\ WF_vars(UserStart)
    /\ WF_vars(UserPoll)
    /\ WF_vars(\E i \in DOMAIN userStream.polls : UserFetch(i))
    /\ WF_vars(\E i \in DOMAIN userStream.polls : UserPush(i))

\* amounts at the two limits and one cent beyond each
BoundaryAmounts ==
    {FEE_CONFIG.limits.min - 1, FEE_CONFIG.limits.min,
     FEE_CONFIG.limits.max, FEE_CONFIG.limits.max + 1}

BoundaryBodies ==
    [amount : BoundaryAmounts,
     destination_currency : {"MXN"},
     payment_method : {"ach"},
     fee_handling : {"inclusive", "additive"}]

\* an initiate request with an amount at or next to a limit arrives, one
\* request at a time
ArriveBounds ==
    \E r \in Requests, key \in NextKeys, body \in BoundaryBodies :
        /\ InFlight = {}
        /\ Answered < MaxClientRequests
        /\ InitiateCheck(r, key, body)

\* an initiate handler in flight takes its next step, the store not failing
InitiateStep ==
    \/ \E r \in Requests : InitiateCreate(r, TRUE)
    \/ \E r \in Requests : InitiateEvent(r, TRUE)
    \/ \E r \in Requests : InitiateStore(r, TRUE)

\* a quote request with a boundary amount has just been received
InitBounds == InitStore /\ quote \in {[NoQuote EXCEPT !.body = b] : b \in BoundaryBodies}

\* quote and initiate requests with amounts at and next to the limits
SpecBounds == InitBounds /\ [][ArriveBounds \/ InitiateStep \/ Quote]_vars

\* the quote endpoint alone, answering one request with any of the bodies
SpecQuote == InitQuote /\ [][Quote]_vars

\* a sequential client, a store that does not fail, and fair scheduling: a
\* handler that has started runs to its response, and the worker keeps taking
\* jobs while one is waiting or active
SpecLive ==
    /\ Init
    /\ [][Arrive(1, MaxClientRequests) \/ HandlerStep \/ WorkerStep]_vars
    /\ WF_vars(HandlerStep)
    /\ WF_vars(WorkerStep)

\* amounts at and next to the two limits and one in between, by both payment
\* methods
MethodBodies ==
    [amount : {FEE_CONFIG.limits.min, FEE_CONFIG.limits.min + 1, ExampleBody.amount,
               FEE_CONFIG.limits.max - 1, FEE_CONFIG.limits.max},
     destination_currency : {"MXN"},
     payment_method : DOMAIN FEE_CONFIG.onramp,
     fee_handling : {"inclusive"}]

\* a sequential client that initiates with the body it was quoted for, and
\* confirms
ArriveMethod ==
    \/ \E r \in Requests, key \in NextKeys :
           /\ InFlight = {} /\ Answered < MaxClientRequests
           /\ InitiateCheck(r, key, quote.body)
    \/ \E r \in Requests, key \in NextKeys, body \in ConfirmBodies :
           /\ InFlight = {} /\ Answered < MaxClientRequests
           /\ ConfirmCheck(r, key, body)

\* a quote request with one of these bodies has just been received
InitMethod == InitStore /\ quote \in {[NoQuote EXCEPT !.body = b] : b \in MethodBodies}

SpecMethod == InitMethod /\ [][ArriveMethod \/ HandlerStep \/ WorkerStep]_vars

\* a request arrives from a sequential client whose Idempotency-Key header may
\* be missing or malformed
ArriveAnyKey ==
    \/ \E r \in Requests, key \in NextKeys \cup BadHeaders, body \in InitiateBodies :
           /\ InFlight = {} /\ Answered < MaxClientRequests
           /\ InitiateCheck(r, key, body)
    \/ \E r \in Requests, key \in NextKeys \cup BadHeaders, body \in ConfirmBodies :
           /\ InFlight = {} /\ Answered < MaxClientRequests
           /\ ConfirmCheck(r, key, body)

SpecKeys == Init /\ [][ArriveAnyKey \/ HandlerStep]_vars

\* a sequential client whose writes fall into different clock values, and the
\* worker, whose writes may follow one another within one clock value
SpecOrder == Init /\ [][StreamApi \/ WorkerStep \/ Tick]_vars

----------------------------------------------------------------------------
(* Properties *)

Payments == DOMAIN payments

Terminal == {"COMPLETED", "FAILED"}

\* the transitions of the payment state machine
Permitted ==
    {<<"INITIATED", "CONFIRMED">>,
     <<"CONFIRMED", "ONRAMP_PENDING">>,
     <<"ONRAMP_PENDING", "ONRAMP_COMPLETED">>, <<"ONRAMP_PENDING", "ONRAMP_FAILED">>,
     <<"ONRAMP_COMPLETED", "OFFRAMP_PENDING">>,
     <<"OFFRAMP_PENDING", "OFFRAMP_COMPLETED">>, <<"OFFRAMP_PENDING", "OFFRAMP_FAILED">>,
     <<"OFFRAMP_COMPLETED", "COMPLETED">>,
     <<"ONRAMP_FAILED", "FAILED">>, <<"OFFRAMP_FAILED", "FAILED">>}

\* the event log of one payment, oldest first
EventsOf(p) == SelectSeq(events, LAMBDA e : e.paymentId = p)

\* no handler and no job attempt is part-way through
Quiescent == InFlight = {} /\ Active = {}

Done == {r \in Requests : reqs[r].pc = "done"}

ReplayHeader == <<"idempotent-replayed", "true">>

\* the live idempotency records a request arriving in this step meets
Stored(r) ==
    {e \in idem : /\ e.rkey = redisKey(reqs'[r].endpoint, DEMO_USER_ID, reqs'[r].key)
                  /\ now < e.expiresAt}

ArrivesNow(r) == reqs[r].pc = "idle" /\ reqs'[r].pc # "idle"

\* C1: every change of a payment's stored status is one of the permitted
\* transitions of the state machine (already in runs where no write throws).
C1_OnlyPermittedTransitions ==
    [][\A p \in Payments :
          (faults' = 0 /\ payments'[p].status # payments[p].status)
              => <<payments[p].status, payments'[p].status>> \in Permitted]_vars

\* C2: once a payment's status is COMPLETED or FAILED no later step changes it
\* (already in runs where no write throws).
C2_TerminalAbsorbing ==
    [][\A p \in Payments :
          (faults' = 0 /\ payments[p].status \in Terminal)
              => payments'[p].status = payments[p].status]_vars

\* C3: in every quiescent state a payment has as many events as status writes
\* (the creation included) and the k-th event carries the k-th status written.
C3_OneEventPerStatusWrite ==
    Quiescent =>
        \A p \in Payments :
            /\ Len(EventsOf(p)) = Len(statusWrites[p])
            /\ \A k \in 1..Len(statusWrites[p]) : EventsOf(p)[k].status = statusWrites[p][k]

\* C4: in every state the stored status of a payment is the status carried by
\* its most recent event.
C4_StatusIsLastEvent ==
    \A p \in Payments :
        /\ EventsOf(p) # <<>>
        /\ EventsOf(p)[Len(EventsOf(p))].status = payments[p].status

\* C5: every transition enqueues one webhook-delivery job for its event type:
\* in every quiescent state the webhook queue holds, for each payment and each
\* status written after the creation, one job {paymentId, eventType}.
C5_WebhookPerTransition ==
    Quiescent =>
        \A p \in Payments :
            /\ Cardinality({k \in DOMAIN webhookQueue : webhookQueue[k].paymentId = p})
                   = Len(statusWrites[p]) - 1
            /\ \A k \in 2..Len(statusWrites[p]) :
                   \E w \in DOMAIN webhookQueue :
                       /\ webhookQueue[w].paymentId = p
                       /\ webhookQueue[w].eventType = eventType(statusWrites[p][k])

\* C6: a request that arrives while a live idempotency record with the same
\* fingerprint is stored under its key returns at once with the stored status
\* and body and the header Idempotent-Replayed: true, and the step changes no
\* payment, no event, no job and no idempotency record.
C6_ReplayNoSideEffects ==
    [][\A r \in Requests :
          (/\ ArrivesNow(r)
           /\ \E e \in Stored(r) : e.data.requestHash = hashRequest(reqs'[r].body))
          => /\ reqs'[r].pc = "done"
             /\ \E e \in Stored(r) :
                    /\ reqs'[r].resp.status = e.data.status
                    /\ reqs'[r].resp.body = e.data.body
             /\ ReplayHeader \in reqs'[r].resp.headers
             /\ UNCHANGED <<payments, events, paymentQueue, idem, statusWrites>>]_vars

\* a confirm request has been answered by replay of a stored 200
C6_Witness ==
    \E r \in Done :
        /\ reqs[r].endpoint = "confirm"
        /\ ReplayHeader \in reqs[r].resp.headers
        /\ reqs[r].resp.status = 200
        /\ \E q \in Done : q < r /\ reqs[q].resp = [reqs[r].resp EXCEPT !.headers = JsonHeaders]

\* C7: a request that arrives while a live idempotency record with a different
\* fingerprint is stored under its key returns 409 at once, and the step changes
\* no payment, no event, no job and leaves the stored record as it is.
C7_ConflictNoSideEffects ==
    [][\A r \in Requests :
          (/\ ArrivesNow(r)
           /\ \E e \in Stored(r) : e.data.requestHash # hashRequest(reqs'[r].body))
          => /\ reqs'[r].pc = "done"
             /\ reqs'[r].resp.status = 409
             /\ ReplayHeader \notin reqs'[r].resp.headers
             /\ UNCHANGED <<payments, events, paymentQueue, idem, statusWrites>>]_vars

\* an initiate request was answered 409 while the first payment stayed as created
C7_Witness ==
    \E r \in Done :
        /\ reqs[r].endpoint = "initiate"
        /\ reqs[r].resp.status = 409
        /\ \E q \in Done : /\ q < r
                           /\ reqs[q].key = reqs[r].key
                           /\ reqs[q].body # reqs[r].body
                           /\ reqs[q].resp.status = 200

\* C8: any two responses returned for one idempotency key (endpoint, user, key)
\* have the same status and body, or one of them is a 409 (already for two
\* requests with the same body, in runs where no write throws).
C8_SameResponsePerKey ==
    \A r, q \in Done :
        (/\ faults = 0
         /\ reqs[r].endpoint = reqs[q].endpoint
         /\ reqs[r].key = reqs[q].key
         /\ reqs[r].body = reqs[q].body)
            => \/ reqs[r].resp.status = 409
               \/ reqs[q].resp.status = 409
               \/ /\ reqs[r].resp.status = reqs[q].resp.status
                  /\ reqs[r].resp.body = reqs[q].resp.body

\* C9: the transition INITIATED -> CONFIRMED happens once per payment: one
\* CONFIRMED write, one payment.confirmed event, one payment-processing job
\* (already in runs where no write throws).
C9_ConfirmedOnce ==
    faults = 0 => \A p \in Payments :
        /\ Cardinality({k \in DOMAIN statusWrites[p] : statusWrites[p][k] = "CONFIRMED"}) <= 1
        /\ Cardinality({k \in DOMAIN events : /\ events[k].paymentId = p
                                              /\ events[k].eventType = "payment.confirmed"}) <= 1
        /\ Cardinality({j \in Jobs : paymentQueue[j].paymentId = p}) <= 1

\* C10: once FAILED has been written to a payment no provider is invoked for
\* it again, and the onramp provider charges a payment at most once (already in
\* runs where no write throws).
C10_FailedIsSticky ==
    [][\A p \in Payments :
          /\ (faults' = 0 /\ \E k \in DOMAIN statusWrites[p] : statusWrites[p][k] = "FAILED")
                 => providerCalls'[p] = providerCalls[p]
          /\ providerCalls'[p].charged <= 1]_vars

\* the worker takes job j in this step
PickedUp(j) == paymentQueue[j].state = "waiting" /\ paymentQueue'[j].state # "waiting"

\* C11: when the worker picks up a job for a payment whose status is not
\* CONFIRMED, the job completes with success in that step and the step writes
\* no status, appends no event and invokes no provider (already in runs where
\* no write throws).
C11_SkipUnlessConfirmed ==
    [][\A j \in Jobs :
          (/\ PickedUp(j)
           /\ faults' = 0
           /\ paymentQueue[j].paymentId \in Payments
           /\ payments[paymentQueue[j].paymentId].status # "CONFIRMED")
          => /\ paymentQueue'[j].state = "completed"
             /\ paymentQueue'[j].attemptsMade = paymentQueue[j].attemptsMade
             /\ UNCHANGED <<payments, events, statusWrites, providerCalls>>]_vars

\* the event types of one payment's log, oldest first
EventTypesOf(p) == [k \in DOMAIN EventsOf(p) |-> EventsOf(p)[k].eventType]

\* the first attempt of job j has ended with an error, no write having thrown
FirstAttemptFailed(j) ==
    /\ paymentQueue[j].state = "waiting"
    /\ paymentQueue[j].attemptsMade = 1
    /\ paymentQueue[j].paymentId \in Payments
    /\ faults = 0

\* C12: after a first attempt in which the onramp provider raised, the statuses
\* written are INITIATED, CONFIRMED, ONRAMP_PENDING, ONRAMP_FAILED, FAILED, the
\* log ends onramp.pending, onramp.failed, payment.failed, and the offramp
\* provider was not invoked; after one in which the offramp provider raised,
\* the statuses written end OFFRAMP_PENDING, OFFRAMP_FAILED, FAILED and the log
\* ends offramp.pending, offramp.failed, payment.failed.
C12_ProviderErrorPath ==
    \A j \in Jobs :
        FirstAttemptFailed(j) =>
            LET p == paymentQueue[j].paymentId
                calls == providerCalls[p]
            IN  /\ (calls.onramp = 1 /\ calls.charged = 0) =>
                       /\ statusWrites[p] = <<"INITIATED", "CONFIRMED", "ONRAMP_PENDING",
                                              "ONRAMP_FAILED", "FAILED">>
                       /\ EventTypesOf(p) = <<"payment.initiated", "payment.confirmed",
                                              "onramp.pending", "onramp.failed",
                                              "payment.failed">>
                       /\ calls.offramp = 0
                /\ (calls.charged = 1 /\ calls.offramp = 1) =>
                       /\ statusWrites[p] = <<"INITIATED", "CONFIRMED", "ONRAMP_PENDING",
                                              "ONRAMP_COMPLETED", "OFFRAMP_PENDING",
                                              "OFFRAMP_FAILED", "FAILED">>
                       /\ EventTypesOf(p) = <<"payment.initiated", "payment.confirmed",
                                              "onramp.pending", "onramp.completed",
                                              "offramp.pending", "offramp.failed",
                                              "payment.failed">>

\* the statuses carried by the events of one payment's log, oldest first
EventStatusesOf(p) == [k \in DOMAIN EventsOf(p) |-> EventsOf(p)[k].status]

HappyPath ==
    <<"INITIATED", "CONFIRMED", "ONRAMP_PENDING", "ONRAMP_COMPLETED",
      "OFFRAMP_PENDING", "OFFRAMP_COMPLETED", "COMPLETED">>

\* C13: when the one job of a confirmed payment has completed on its first
\* attempt (both providers succeeded, no write threw), the payment's log is
\* payment.initiated, payment.confirmed, onramp.pending, onramp.completed,
\* offramp.pending, offramp.completed, payment.completed, each event carrying
\* the corresponding status, and the stored status is COMPLETED.
C13_HappyPathLog ==
    \A j \in Jobs :
        (/\ paymentQueue[j].state = "completed"
         /\ paymentQueue[j].attemptsMade = 0
         /\ faults = 0)
        => LET p == paymentQueue[j].paymentId
           IN  /\ EventTypesOf(p) = <<"payment.initiated", "payment.confirmed",
                                      "onramp.pending", "onramp.completed",
                                      "offramp.pending", "offramp.completed",
                                      "payment.completed">>
               /\ EventStatusesOf(p) = HappyPath
               /\ payments[p].status = "COMPLETED"

\* the jobs enqueued for payment p
JobsOf(p) == {j \in Jobs : paymentQueue[j].paymentId = p}

\* C14: a job is attempted at most 3 times; once its attempts are exhausted
\* the payment's status is FAILED (in every later state as well), and the
\* providers have been invoked at most 3 times per job of the payment.
C14_AttemptsExhausted ==
    /\ \A j \in Jobs : paymentQueue[j].attemptsMade <= Attempts
    /\ \A j \in Jobs :
           (paymentQueue[j].state = "failed" /\ paymentQueue[j].paymentId \in Payments)
               => payments[paymentQueue[j].paymentId].status = "FAILED"
    /\ \A p \in Payments :
           /\ providerCalls[p].onramp <= Attempts * Cardinality(JobsOf(p))
           /\ providerCalls[p].offramp <= Attempts * Cardinality(JobsOf(p))

ChecksPayment(r) ==
    /\ reqs[r].endpoint = "confirm"
    /\ reqs[r].pc = "fetch" /\ reqs'[r].pc # "fetch"
    /\ reqs[r].body.payment_id \in Payments

\* C16: a payment is created with quoteExpiresAt = creation time + 60 s; a
\* confirm that checks an INITIATED payment after its quoteExpiresAt returns
\* 400 'Quote expired' and the step leaves the payment, the event log and the
\* queue unchanged; one that checks it at or before quoteExpiresAt is not
\* answered 'Quote expired'.
C16_QuoteLifetimeEnforced ==
    [][/\ \A p \in DOMAIN payments' \ Payments :
              payments'[p].quoteExpiresAt = now + QuoteLifetime
       /\ \A r \in Requests :
              (ChecksPayment(r) /\ payments[reqs[r].body.payment_id].status = "INITIATED")
              => IF now > payments[reqs[r].body.payment_id].quoteExpiresAt
                 THEN /\ reqs'[r].pc = "done"
                      /\ reqs'[r].resp = QuoteExpired
                      /\ UNCHANGED <<payments, events, paymentQueue, statusWrites>>
                 ELSE ~(reqs'[r].pc = "done" /\ reqs'[r].resp = QuoteExpired)]_vars

\* a confirm was answered 'Quote expired' and the payment it named is still
\* INITIATED with only its creation event and no job
C16_Witness ==
    \E r \in Done :
        /\ reqs[r].endpoint = "confirm"
        /\ reqs[r].resp = QuoteExpired
        /\ reqs[r].body.payment_id \in Payments
        /\ payments[reqs[r].body.payment_id].status = "INITIATED"
        /\ now > payments[reqs[r].body.payment_id].quoteExpiresAt
        /\ Len(EventsOf(reqs[r].body.payment_id)) = 1
        /\ paymentQueue = <<>>

\* request r to the endpoint returns a non-success response in this step
Fails(r, endpoint) ==
    /\ reqs[r].pc # "done" /\ reqs'[r].pc = "done"
    /\ reqs'[r].endpoint = endpoint
    /\ reqs'[r].resp.status # 200

\* C17: when a confirm request returns a non-success response, the payment it
\* names has the status it had before the request, and the request has appended
\* no event and enqueued no job: a response from the checks leaves everything
\* unchanged, and a response after the checks (a write threw) finds the payment
\* still INITIATED, without payment.confirmed event and without job.
C17_ConfirmFailureNoEffect ==
    [][\A r \in Requests :
          Fails(r, "confirm") =>
              IF reqs[r].pc \in {"update", "event", "enqueue", "store"}
              THEN /\ payments'[reqs[r].pid].status = "INITIATED"
                   /\ "payment.confirmed" \notin
                          {events'[k].eventType : k \in {i \in DOMAIN events' :
                                                           events'[i].paymentId = reqs[r].pid}}
                   /\ \A j \in DOMAIN paymentQueue' :
                          paymentQueue'[j].paymentId # reqs[r].pid
              ELSE UNCHANGED <<payments, events, paymentQueue>>]_vars

\* C18: when an initiate request returns a non-success response, no Payment
\* row exists that the request created.
C18_InitiateFailureNoPayment ==
    [][\A r \in Requests :
          Fails(r, "initiate") => reqs[r].pid \notin DOMAIN payments']_vars

\* the latest quote request was priced
Quoted == quote.resp.status = 200

\* C19: for every accepted amount, method and corridor, with inclusive fee
\* handling the returned usdc_sent and fees.total add up to the input amount.
C19_InclusiveAddsUp ==
    (Quoted /\ quote.body.fee_handling = "inclusive")
        => quote.resp.body.breakdown.usdc_sent + quote.resp.body.breakdown.fees.total
               = quote.body.amount

\* C20: for every accepted amount, method, corridor and handling mode, the
\* returned fees.total is the sum of the four returned fee components.
C20_TotalIsSumOfComponents ==
    Quoted =>
        LET fees == quote.resp.body.breakdown.fees
        IN  fees.total = fees.onramp + fees.corridor + fees.platform + fees.network_gas

\* C21: with additive fee handling calculateFees returns usdc_sent equal to the
\* amount and total_charged - fees.total equal to the amount; with inclusive
\* handling it returns total_charged equal to the amount.
C21_HandlingModes ==
    Quoted =>
        IF quote.body.fee_handling = "additive"
        THEN /\ quote.fees.usdc_sent = quote.body.amount
             /\ quote.fees.total_charged - quote.fees.fees.total = quote.body.amount
        ELSE quote.fees.total_charged = quote.body.amount

\* the platform fee returned for the latest quote, in cents
QuotedPlatformFee == quote.resp.body.breakdown.fees.platform

\* 2.99 + amount * 0.005 for the latest quote, in 1/1000 cent
PlatformFeeRaw == FEE_CONFIG.platform.fixed + quote.body.amount * FEE_CONFIG.platform.percent

\* the returned platform fee is clamp(2.99 + amount * 0.005, 0.99, 50.00) to the cent
PlatformFeeIsClamp ==
    /\ QuotedPlatformFee * 1000 >= FEE_CONFIG.platform.min
    /\ QuotedPlatformFee * 1000 <= FEE_CONFIG.platform.max
    /\ PlatformFeeRaw <= FEE_CONFIG.platform.max
           => QuotedPlatformFee * 1000 - PlatformFeeRaw \in -500..500
    /\ PlatformFeeRaw > FEE_CONFIG.platform.max
           => QuotedPlatformFee * 1000 = FEE_CONFIG.platform.max

\* C23 as stated: the platform fee is clamp(2.99 + amount * 0.005, 0.99, 50.00),
\* which at amount 10 is the 0.99 minimum and at amount 10000 the 50.00 maximum.
C23_PlatformFeeAsStated ==
    Quoted =>
        /\ PlatformFeeIsClamp
        /\ quote.body.amount = FEE_CONFIG.limits.min
               => QuotedPlatformFee * 1000 = FEE_CONFIG.platform.min
        /\ quote.body.amount = FEE_CONFIG.limits.max
               => QuotedPlatformFee * 1000 = FEE_CONFIG.platform.max

\* C23, amended: the platform fee is clamp(2.99 + amount * 0.005, 0.99, 50.00);
\* at amount 10 it is 3.04 and no accepted amount reaches the 0.99 minimum,
\* and at amount 10000 it is the 50.00 maximum.
C23_PlatformFeeClamp ==
    Quoted =>
        /\ PlatformFeeIsClamp
        /\ QuotedPlatformFee * 1000 > FEE_CONFIG.platform.min
        /\ quote.body.amount = FEE_CONFIG.limits.min => QuotedPlatformFee = 304
        /\ quote.body.amount = FEE_CONFIG.limits.max
               => QuotedPlatformFee * 1000 = FEE_CONFIG.platform.max

\* quotes for 10.00 and for 10000.00 have been priced, the latter at the cap
C23_Witness ==
    /\ Quoted
    /\ quote.body.amount = FEE_CONFIG.limits.max
    /\ PlatformFeeRaw > FEE_CONFIG.platform.max
    /\ QuotedPlatformFee = 5000

\* the documented example has been quoted at the rate 17.234
ExampleQuoted ==
    /\ Quoted
    /\ quote.body = ExampleBody
    /\ quote.resp.body.exchange_rate = 17234

QuoteAnswered == quote.resp = IdleReq.resp /\ quote'.resp # IdleReq.resp

\* an initiate request arrives in this step under a key with no stored record
InitiateValidated(r) ==
    /\ ArrivesNow(r)
    /\ reqs'[r].endpoint = "initiate"
    /\ redisGet(redisKey("initiate", DEMO_USER_ID, reqs'[r].key)) = {}

\* C22: a quote or initiate request whose amount is below 10.00 or above
\* 10000.00 is answered 400 and leaves payments, events and idempotency records
\* as they were; one with amount 10.00 or 10000.00 is not rejected as invalid
\* (quote answers 200); no stored payment has an amount outside the limits;
\* and calculateFees fails exactly for the amounts outside [10, 10000].
C22_AmountBounds ==
    [][/\ \A r \in Requests :
             InitiateValidated(r) =>
                 IF OutOfRange(reqs'[r].body.amount)
                 THEN /\ reqs'[r].pc = "done"
                      /\ reqs'[r].resp.status = 400
                      /\ <<payments, events, idem>>' = <<payments, events, idem>>
                 ELSE /\ reqs'[r].resp # InvalidRequest
                      /\ reqs'[r].resp.status \notin {409, 500}
       /\ QuoteAnswered =>
             /\ <<payments, events, idem>>' = <<payments, events, idem>>
             /\ quote'.resp.status = IF OutOfRange(quote.body.amount) THEN 400 ELSE 200
       /\ \A p \in DOMAIN payments' : ~OutOfRange(payments'[p].amount)
       /\ (calculateFees(quote.body) = AmountError) <=> OutOfRange(quote.body.amount)
      ]_vars

\* a request of 9.99 has been answered 400, a payment of 10000.00 has been
\* created, and a quote request of 10000.01 has been answered
C22_Witness ==
    /\ \E r \in Requests :
          /\ reqs[r].pc = "done" /\ reqs[r].endpoint = "initiate"
          /\ reqs[r].body.amount = FEE_CONFIG.limits.min - 1
          /\ reqs[r].resp = InvalidRequest
    /\ \E p \in Payments : payments[p].amount = FEE_CONFIG.limits.max
    /\ quote.resp # IdleReq.resp
    /\ quote.body.amount = FEE_CONFIG.limits.max + 1

\* C25: a payment's completedAt is set if and only if its status is COMPLETED
\* or FAILED.
C25_CompletedAtIffTerminal ==
    \A p \in Payments : (payments[p].completedAt # NULL) <=> (payments[p].status \in Terminal)

\* the fields of a payment fixed at initiate
FeeSnapshot(payment) ==
    [onrampFee    |-> payment.onrampFee,
     corridorFee  |-> payment.corridorFee,
     platformFee  |-> payment.platformFee,
     networkGas   |-> payment.networkGas,
     totalFees    |-> payment.totalFees,
     usdcSent     |-> payment.usdcSent,
     amount       |-> payment.amount,
     exchangeRate |-> payment.exchangeRate,
     destAmount   |-> payment.destAmount,
     feeHandling  |-> payment.feeHandling]

\* C26: a payment row is created only by an initiate handler, with the amount
\* of its request, and no later step (confirm, worker steps and retries,
\* webhook worker) changes the row's fee snapshot, amount, exchangeRate,
\* destAmount or feeHandling.
C26_FeeSnapshotFrozen ==
    [][/\ \A p \in DOMAIN payments :
             /\ p \in DOMAIN payments'
             /\ FeeSnapshot(payments'[p]) = FeeSnapshot(payments[p])
       /\ \A p \in DOMAIN payments' \ DOMAIN payments :
             \E r \in Requests :
                 /\ reqs[r].endpoint = "initiate" /\ reqs[r].pc = "create"
                 /\ payments'[p].amount = reqs[r].body.amount
      ]_vars

\* a payment has been confirmed, its job has failed once and is being retried
\* past the onramp, and a webhook for it has been delivered
C26_Witness ==
    \E p \in Payments :
        /\ \E j \in Jobs : /\ paymentQueue[j].paymentId = p
                           /\ paymentQueue[j].attemptsMade >= 1
                           /\ payments[p].onrampTxId # NULL
        /\ \E d \in DOMAIN deliveries : /\ deliveries[d].paymentId = p
                                        /\ deliveries[d].status = "DELIVERED"

\* C30: a step of the webhook delivery worker leaves every Payment row and
\* every Event row as it was and at most appends rows to WebhookDelivery.
C30_WebhookWorkerFrame ==
    [][(webhookQueue' # webhookQueue \/ deliveries' # deliveries) =>
           /\ UNCHANGED <<payments, events, paymentQueue>>
           /\ Len(deliveries') >= Len(deliveries)
           /\ SubSeq(deliveries', 1, Len(deliveries)) = deliveries
      ]_vars

\* a delivery has failed and been recorded, and a later attempt has delivered
\* the webhook of a payment that the worker has moved past CONFIRMED
C30_Witness ==
    /\ \E d \in DOMAIN deliveries : deliveries[d].status = "FAILED"
    /\ \E d \in DOMAIN deliveries :
          /\ deliveries[d].status = "DELIVERED"
          /\ deliveries[d].payload.data.status \notin {"INITIATED", "CONFIRMED"}

\* the ids of the events sent on a stream as frames of the given name
SentIds(s, name) == {s.frames[i].id : i \in {h \in DOMAIN s.frames : s.frames[h].event = name}}

\* the events of the payment a stream is about
StreamEvents == {k \in DOMAIN events : events[k].paymentId = stream.paymentId}

\* C27 (what a finite run can show of it): once the server has sent
\* payment.complete and closed the stream, every event ever appended to the
\* payment has been sent as payment.event before it.
C27_AllEventsBeforeComplete ==
    stream.pc = "closed" => StreamEvents \subseteq SentIds(stream, "payment.event")

\* no event is sent twice and the timestamps of the events sent never decrease
OnceInOrder(frames) ==
    \A i, h \in DOMAIN frames :
        i < h => /\ frames[i].id # frames[h].id
                 /\ events[frames[i].id].timestamp <= events[frames[h].id].timestamp

\* C28: the initial burst of a payment's stream holds all events of the payment
\* that exist, oldest first, and every event is sent exactly once, in
\* non-decreasing order of timestamp, also when callbacks of the timer overlap.
C28_ExactlyOnceInOrder ==
    [][/\ (stream.pc = "start" /\ stream'.pc = "open") =>
              stream'.frames = EventFrames("payment.event",
                                           findEvents({stream.paymentId}, Epoch))
       /\ OnceInOrder(stream'.frames)
      ]_vars

\* the events the handlers can append while no worker runs
UserEventIds == 1..(2 * MaxPayments)

\* event k has been appended to a payment of the user after the connection
\* was opened, and the client has not disconnected
AppendedSinceOpen(k) ==
    /\ userStream.pc \in {"start", "open"}
    /\ k \in DOMAIN events
    /\ k > userStream.since
    /\ events[k].paymentId \in findPayments(DEMO_USER_ID)

\* C29: the server never closes the stream of a user, and every event appended
\* after the connection was opened to a payment of the user, also to one
\* created later, is eventually sent as user.event (unless the client
\* disconnects).
C29_EveryEventEventuallySent ==
    /\ [](userStream.pc # "closed")
    /\ \A k \in UserEventIds :
           [](AppendedSinceOpen(k) =>
                  <>(k \in SentIds(userStream, "user.event") \/ userStream.pc = "aborted"))

\* the job's attempt ends in this step with the error thrown again
WebhookAttemptFails(j) ==
    /\ j \in DOMAIN webhookQueue'
    /\ webhookQueue[j].pc = "catch"
    /\ webhookQueue'[j].pc # "catch"

\* the row this step has appended to WebhookDelivery
NewDelivery == deliveries'[Len(deliveries')]

\* C31: the failure of a job's final attempt is recorded with status
\* EXHAUSTED, a successful attempt with status DELIVERED, and an earlier failed
\* attempt throws so that the queue runs the job again.
C31_FinalFailureExhausted ==
    [][\A j \in DOMAIN webhookQueue :
          /\ (WebhookAttemptFails(j) /\ webhookQueue'[j].pc = "failed"
                  /\ Len(deliveries') > Len(deliveries))
                 => NewDelivery.status = "EXHAUSTED"
          /\ (j \in DOMAIN webhookQueue' /\ webhookQueue[j].pc = "create"
                  /\ webhookQueue'[j].pc = "completed")
                 => /\ Len(deliveries') > Len(deliveries)
                    /\ NewDelivery.status = "DELIVERED"
          /\ (WebhookAttemptFails(j) /\ webhookQueue[j].attemptsMade + 1 < Attempts)
                 => webhookQueue'[j].pc = "wait"
      ]_vars

\* the rows recorded, and the jobs added, for a payment and an event type
DeliveriesOf(p, type) ==
    {d \in DOMAIN deliveries :
         deliveries[d].paymentId = p /\ deliveries[d].eventType = type}

WebhookJobsOf(p, type) ==
    {j \in DOMAIN webhookQueue :
         webhookQueue[j].paymentId = p /\ webhookQueue[j].eventType = type}

\* the maxAttempts column of WebhookDelivery
maxAttempts == 3

\* C32: a webhook job leaves at most one WebhookDelivery row however many
\* attempts it takes (so a payment and event type never have more rows than
\* jobs), and no row has attempts above maxAttempts.
C32_OneRecordPerJob ==
    /\ \A p \in DOMAIN payments \cup {UnknownId}, type \in WebhookEventTypes :
           Cardinality(DeliveriesOf(p, type)) <= Cardinality(WebhookJobsOf(p, type))
    /\ \A d \in DOMAIN deliveries : deliveries[d].attempts <= maxAttempts

\* a call of getExchangeRate('USD', to) returns or throws in this step
RateCallEnds == rateCall.pc # "idle" /\ rateCall'.pc = "idle"

\* a cache hit returns the cached value without an upstream fetch
RateHitReturnsCached ==
    (RateCallEnds /\ rateCall.pc = "get")
        => /\ rateCall'.result = Returned(parseFloat(rateCache[rateCall.to].value))
           /\ rateCall'.fetches = 0

\* after a miss and a fetch that yielded a rate, the rate is stored under the
\* currency's key with TTL 30 and returned
RateMissStoresFetched ==
    (RateCallEnds /\ rateCall.rate # NULL)
        => /\ rateCall'.result = Returned(rateCall.rate)
           /\ rateCache'[rateCall.to] = [value |-> toString(rateCall.rate),
                                         ttl |-> 30]

\* an error is thrown only when no rate was fetched and the fallback table
\* lacks the currency
RateErrorOnlyWithoutFallback ==
    RateCallEnds =>
        IF rateCall.to \in DOMAIN FALLBACK_RATES
        THEN rateCall'.result.kind = "rate"
        ELSE rateCall'.result.kind # "rate" => rateCall.rate = NULL

\* C33: getExchangeRate('USD', to) returns the cached value on a hit without
\* an upstream fetch; on a miss with a fetch that yields a rate it stores the
\* rate under rate:USD:<to> with TTL 30s and returns it; it throws only when
\* no rate was fetched and the fallback table lacks the currency.
C33_RateLookup ==
    [][/\ RateHitReturnsCached
       /\ RateMissStoresFetched
       /\ RateErrorOnlyWithoutFallback
      ]_vars

\* C34: the events of a payment are totally ordered by timestamp: no two of
\* them carry the same timestamp, and a later insertion has a later
\* timestamp, also for events the worker inserts back to back.
C34_EventsTotallyOrdered ==
    \A i, k \in DOMAIN events :
        (i < k /\ events[i].paymentId = events[k].paymentId)
            => events[i].timestamp < events[k].timestamp

Endpoints == {"initiate", "confirm"}

\* the user of the handlers and another user
Users == {DEMO_USER_ID, "user_002"}

KeyValues == {Keys[i] : i \in DOMAIN Keys}

\* the request arriving in this step is answered by the idempotency layer
AnsweredFromRecord(r) ==
    /\ ArrivesNow(r)
    /\ reqs'[r].pc = "done"
    /\ \/ reqs'[r].resp = ConflictResponse
       \/ ReplayHeader \in reqs'[r].resp.headers

\* C35: idempotency records are scoped per endpoint and per user: two lookups
\* use the same redis key only for the same endpoint, user and key, and a
\* request is answered with a replay or a 409 only when an earlier request to
\* the same endpoint with the same key has stored its response; a record of
\* initiate under a key is not found by confirm under that key.
C35_ScopedPerEndpointAndUser ==
    [][/\ \A e1, e2 \in Endpoints, u1, u2 \in Users, k1, k2 \in KeyValues :
              redisKey(e1, u1, k1) = redisKey(e2, u2, k2)
                  => <<e1, u1, k1>> = <<e2, u2, k2>>
       /\ \A r \in Requests :
              AnsweredFromRecord(r)
                  => \E q \in Requests \ {r} :
                         /\ reqs[q].endpoint = reqs'[r].endpoint
                         /\ reqs[q].key = reqs'[r].key
                         /\ reqs[q].pc = "done"
                         /\ reqs[q].resp.status = 200
      ]_vars

\* a key was used on initiate, whose response is stored, and then on confirm,
\* which was handled and answered 200 without a replay
C35_Witness ==
    \E r, q \in Requests :
        /\ reqs[q].endpoint = "initiate" /\ reqs[q].pc = "done"
        /\ reqs[q].resp.status = 200
        /\ redisGet(redisKey("initiate", DEMO_USER_ID, reqs[q].key)) # {}
        /\ reqs[r].endpoint = "confirm" /\ reqs[r].key = reqs[q].key
        /\ reqs[r].pc = "done" /\ reqs[r].resp.status = 200
        /\ ReplayHeader \notin reqs[r].resp.headers

\* C36: an initiate or confirm request whose Idempotency-Key header is missing
\* or is no UUID v4 is answered 400 at once, and the step creates or changes
\* no payment, no event, no job and no idempotency record.
C36_InvalidKeyRejected ==
    [][\A r \in Requests :
          (ArrivesNow(r) /\ reqs'[r].key \in BadHeaders)
              => /\ reqs'[r].pc = "done"
                 /\ reqs'[r].resp.status = 400
                 /\ reqs'[r].resp = InvalidIdempotencyKey
                 /\ UNCHANGED <<payments, events, idem, paymentQueue, webhookQueue>>
      ]_vars

\* a confirm request for an existing payment whose header is missing or
\* malformed has been refused while idempotency records exist
C36_Witness ==
    /\ payments # <<>> /\ idem # {}
    /\ \E r \in Requests : /\ reqs[r].endpoint = "confirm" /\ reqs[r].pc = "done"
                           /\ reqs[r].key \in BadHeaders
                           /\ reqs[r].body.payment_id \in DOMAIN payments

\* C37: provider transaction ids are stored before the matching completed
\* status: a payment past the onramp has an onrampTxId, a payment past the
\* offramp has an offrampTxId, and no payment has an offrampTxId without an
\* onrampTxId.
C37_TxIdBeforeCompleted ==
    \A p \in Payments :
        /\ payments[p].status \in {"ONRAMP_COMPLETED", "OFFRAMP_PENDING",
                                   "OFFRAMP_COMPLETED", "COMPLETED"}
               => payments[p].onrampTxId # NULL
        /\ payments[p].status \in {"OFFRAMP_COMPLETED", "COMPLETED"}
               => payments[p].offrampTxId # NULL
        /\ payments[p].offrampTxId # NULL => payments[p].onrampTxId # NULL

\* a payment has been completed by an attempt that followed a failed one
C37_Witness ==
    \E p \in Payments :
        /\ payments[p].status = "COMPLETED"
        /\ payments[p].offrampTxId # NULL
        /\ \E j \in Jobs : paymentQueue[j].paymentId = p /\ paymentQueue[j].attemptsMade >= 1

\* C38: the payment method the worker passes to the onramp provider, taken
\* from the stored onrampFee, is the payment_method of the initiate request
\* that created the payment, for amounts over the whole accepted range.
C38_MethodRecovered ==
    \A r \in Requests :
        (reqs[r].endpoint = "initiate" /\ reqs[r].pc = "done" /\ reqs[r].resp.status = 200)
            => LET p == reqs[r].resp.body.payment_id
               IN  /\ onrampMethod(payments[p]) = reqs[r].body.payment_method
                   /\ providerCalls[p].method \in {"none", reqs[r].body.payment_method}

\* the worker has called the onramp provider for a card payment of the
\* smallest amount
C38_Witness ==
    \E p \in Payments :
        /\ payments[p].amount = FEE_CONFIG.limits.min
        /\ payments[p].onrampFee > 0
        /\ providerCalls[p].method = "card"

\* the handler of request r returns 200 in this step
Succeeds(r) ==
    /\ reqs[r].pc \notin {"idle", "done"}
    /\ reqs'[r].pc = "done"
    /\ reqs'[r].resp.status = 200

\* C39: an idempotency record is written only in the last step of a handler
\* run that ends with 200; every stored record has status 200 and names a
\* payment that exists; an error response is never stored, so what is
\* replayed to a retry is never an error response.
C39_OnlySuccessStored ==
    [][/\ idem' # idem => \E r \in Requests : Succeeds(r)
       /\ \A e \in idem' :
              /\ e.data.status = 200
              /\ e.data.body.payment_id \in DOMAIN payments'
       /\ \A r \in Requests :
              (ArrivesNow(r) /\ ReplayHeader \in reqs'[r].resp.headers)
                  => reqs'[r].resp.status = 200
      ]_vars

\* a record is stored, and a request that was answered with an error has been
\* sent again with the same key and body and was handled again, not replayed
C39_Witness ==
    /\ idem # {}
    /\ \E r, q \in Requests :
           /\ r < q
           /\ reqs[r].pc = "done" /\ reqs[q].pc = "done"
           /\ reqs[r].resp.status \in {400, 404, 500}
           /\ reqs[q].endpoint = reqs[r].endpoint
           /\ reqs[q].key = reqs[r].key
           /\ reqs[q].body = reqs[r].body
           /\ ReplayHeader \notin reqs[q].resp.headers

----------------------------------------------------------------------------
(* The controller of a stream connection *)

\* C40: the controller of a payment's stream is closed at most once and
\* nothing is enqueued on it after it is closed: controller.close() is called
\* at most once per connection, whether by a callback at a terminal state or by
\* the disconnect listener, and the frames sent do not change once the stream
\* is closed or the client has disconnected.
C40_ClosedOnceNothingAfter ==
    [][/\ stream'.closeCalls <= 1
       /\ stream.pc \in {"closed", "aborted"} => stream'.frames = stream.frames
      ]_vars

====
